---- MODULE Spec2Model ----
(***************************************************************************)
(* Memory and prompt pipeline of FastAPIAdventureInAI.                     *)
(*                                                                         *)
(* Spec      the story history of one saved game: raw turns               *)
(*           (StoryHistory), summary chunks (TokenizedHistory) and the     *)
(*           deep memory, changed by the history endpoints one request     *)
(*           at a time.  A request is cut at its database commits and at   *)
(*           the calls to the AI server that can raise.                    *)
(*                                                                         *)
(* TurnSpec  one request to generate_from_game on the AI server: the     *)
(*           prompt assembled by flatten_json_prompt from the request,     *)
(*           then the generation loop.                                     *)
(*                                                                         *)
(* ConcSpec  two append requests on the same game served by two threads    *)
(*           of the API server, each cut at its reads and commits.         *)
(*                                                                         *)
(* DeepSpec  Spec started from games with up to four summary chunks, with  *)
(*           the deep memory endpoints.                                    *)
(*                                                                         *)
(* SanitizeSpec  the clean-up of a generated text, applied repeatedly;     *)
(*           here a text is the sequence of the pieces the clean-up        *)
(*           patterns tell apart.                                          *)
(*                                                                         *)
(* SettingsSpec  get_ai_settings and the prompt budgets that start from    *)
(*           its SAFE_PROMPT_LIMIT.                                        *)
(*                                                                         *)
(* DeepConcSpec  a deep-memory create request and a Trigger B served at    *)
(*           the same time, under the unique saved_game_id column.         *)
(*                                                                         *)
(* SummarySpec  summarize_chunk: the prompt built from the entries of a    *)
(*           chunk, then the generation.                                   *)
(*                                                                         *)
(* LookupSpec  describe_entity_ai: the sources put into the chunk handed   *)
(*           to the summarizer.                                            *)
(*                                                                         *)
(* QuerySpec  extract_query_terms and select_sections, on texts given as   *)
(*           sequences of characters.                                      *)
(*                                                                         *)
(* TierSpec  the settings row the triggers and the AI server read for a    *)
(*           game whose owner has an account tier.                         *)
(*                                                                         *)
(* A text is modelled by the number of tokens the model tokenizer gives    *)
(* it (0 for the empty text); the cached token_count column is kept        *)
(* beside it.  Settings are scaled down (the seeded rows hold 600/850,     *)
(* 150/230 and 4/6); the compaction rules only compare and add them.       *)
(***************************************************************************)
EXTENDS Integers, Sequences, FiniteSets, TLC

\* SQL NULL / Python None of an integer column.
NULL == 0 - 1

(***************************************************************************)
(* Settings row (ai_directive_settings), scaled.                           *)
(***************************************************************************)
TOKENIZE_THRESHOLD == 2
TOKENIZED_HISTORY_BLOCK_SIZE == 10
MAX_TOKENIZED_HISTORY_BLOCK == 3

(***************************************************************************)
(* Bounds of the model.                                                    *)
(***************************************************************************)
\* raw turns ever inserted into the game
MaxHistory == 2
\* largest initial history of a new saved game
MaxInitialHistory == 2
\* delete / edit / manual chunk requests in one behaviour
MaxManual == 1
\* token counts of the texts a client posts
EntryTokens == {1, 2}
\* token counts of the summaries the summarizer returns: the summarizer
\* generates up to max_tokens = TOKENIZED_HISTORY_BLOCK_SIZE new tokens, and
\* the count of the returned text is taken afresh by the tokenizer, which
\* puts its begin-of-text token in front (11: a summary of the full 10)
SummaryTokens == {0, 3, 9, 11}
\* token counts of the deep summaries the compressor returns
DeepTokens == {3}

VARIABLES
    history,        \* StoryHistory rows of the game
    chunks,         \* TokenizedHistory rows of the game
    deep_memory,    \* DeepMemory rows of the game (the column is unique)
    next_id,        \* next primary key of story_history
    next_chunk_id,  \* next primary key of tokenized_history
    pc,             \* where the request being served stands
    new_history,    \* id of the row the request inserted (NULL: none)
    response,       \* status of the last append request
    summarize_calls,\* calls of ai_summarize_chunk made by the request
    lastA,          \* what the request's Trigger A did
    lastB,          \* what the request's Trigger B did
    last_deleted,   \* id of the raw turn the last request deleted
    manual,         \* delete / edit / manual chunk requests served
    request,        \* TurnSpec: the GenerateFromGameRequest, in tokens
    prompt,         \* TurnSpec: the sections of the prompt, in order
    turn_pc,        \* TurnSpec: where generate_from_game stands
    attempt,        \* TurnSpec: calls of generator.generate made
    story,          \* TurnSpec: the lines of the text kept as the story
    threads,        \* ConcSpec: the local state of each append request
    stop_tokens,    \* SanitizeSpec: STOP_TOKENS of the settings in use
    generated,      \* SanitizeSpec: the text, as its pieces
    passes,         \* SanitizeSpec: times the text went through the steps
    settings_row,   \* SettingsSpec: the row of ai_directive_settings
    settings_cache, \* SettingsSpec: the dicts get_ai_settings has cached
    budget,         \* SettingsSpec: the last prompt budget computed
    query,          \* QuerySpec: the query text and the section titles
    query_terms,    \* QuerySpec: requested_section_terms
    selected,       \* QuerySpec: the titles select_sections returned
    account_level,  \* TierSpec: game_settings_id of the owner's tier
    directive_rows, \* TierSpec: the rows of ai_directive_settings, by id
    tier_cache,     \* TierSpec: _settings_cache, by settings id
    limits          \* TierSpec: the thresholds a trigger last read

\* the rows of the game
db_vars == <<history, chunks, next_id, next_chunk_id>>
\* the request served by Spec
serial_vars == <<deep_memory, pc, new_history, response, summarize_calls,
                 lastA, lastB, last_deleted, manual>>
turn_vars == <<request, prompt, turn_pc, attempt, story>>
conc_vars == <<threads>>
san_vars == <<stop_tokens, generated, passes>>
settings_vars == <<settings_row, settings_cache, budget>>
query_vars == <<query, query_terms, selected>>
tier_vars == <<account_level, directive_rows, tier_cache, limits>>
pure_vars == <<san_vars, settings_vars, query_vars, tier_vars>>
vars == <<db_vars, serial_vars, turn_vars, conc_vars, pure_vars>>

(***************************************************************************)
(* Helpers over rows.                                                      *)
(***************************************************************************)
Max(S) == CHOOSE x \in S : \A y \in S : y <= x
Min(S) == CHOOSE x \in S : \A y \in S : x <= y

RECURSIVE SumSeq(_)
SumSeq(s) == IF s = <<>> THEN 0 ELSE Head(s) + SumSeq(Tail(s))

SeqToSet(s) == {s[i] : i \in 1..Len(s)}

\* ORDER BY entry_index (equal indexes in primary-key order)
Before(a, b) ==
    \/ a.entry_index < b.entry_index
    \/ a.entry_index = b.entry_index /\ a.id < b.id

RECURSIVE OrderByEntryIndex(_)
OrderByEntryIndex(S) ==
    IF S = {} THEN <<>>
    ELSE LET first == CHOOSE a \in S : \A b \in S \ {a} : Before(a, b)
         IN <<first>> \o OrderByEntryIndex(S \ {first})

\* func.max(StoryHistory.entry_index): NULL over no rows
MaxEntryIndex(h) ==
    IF h = {} THEN NULL ELSE Max({r.entry_index : r \in h})

\* Python truth value of an Optional[int]
Truthy(n) == n /= NULL /\ n /= 0

\* next_entry_index = (max_entry_index or -1) + 1
NextEntryIndexAfter(max_entry_index) ==
    (IF Truthy(max_entry_index) THEN max_entry_index ELSE 0 - 1) + 1

NextEntryIndex(h) == NextEntryIndexAfter(MaxEntryIndex(h))

\* StoryHistory(saved_game_id, entry_index, text): token_count NULL,
\* is_tokenized 0 by the column defaults
NewHistoryRow(id, idx, text) ==
    [id |-> id, entry_index |-> idx, text |-> text,
     token_count |-> NULL, is_tokenized |-> 0]

NoA == [kind |-> "none", target |-> {}, new_ids |-> <<>>, new_tokens |-> 0,
        before |-> {}, untokenized |-> {}, appended |-> NULL]
NoB == [kind |-> "none", before |-> {}, deep_before |-> {}]
\* no request to generate_from_game
NoRequest == [base |-> 0, action |-> 0, deep_memory |-> 0,
              tokenized_history |-> <<>>, history |-> <<>>]

InitGame ==
    /\ history = {}
    /\ chunks = {}
    /\ deep_memory = {}
    /\ next_id = 1
    /\ next_chunk_id = 1
    /\ pc = "new"
    /\ new_history = NULL
    /\ response = "none"
    /\ summarize_calls = 0
    /\ lastA = NoA
    /\ lastB = NoB
    /\ last_deleted = NULL
    /\ manual = 0

\* no request to the AI server
NoTurn ==
    /\ request = NoRequest
    /\ prompt = <<>>
    /\ turn_pc = "none"
    /\ attempt = 0
    /\ story = <<>>

\* no concurrent append requests
NoThreads == threads = <<>>

\* no text to sanitize
NoText ==
    /\ stop_tokens = <<>>
    /\ generated = <<>>
    /\ passes = 0

NoBudget == [for |-> "none", limit |-> 0, available |-> 0]
\* the seeded row (seed_data.py lines 100-119), scaled
SeededRow == [max_tokens |-> 12, reserved_for_generation |-> 2,
              safe_prompt_limit |-> 10]
\* no settings loaded
NoSettings ==
    /\ settings_row = SeededRow
    /\ settings_cache = {}
    /\ budget = NoBudget

NoLimits == [for |-> "none", TOKENIZE_THRESHOLD |-> NULL,
             TOKENIZED_HISTORY_BLOCK_SIZE |-> NULL,
             MAX_TOKENIZED_HISTORY_BLOCK |-> NULL,
             DEEP_MEMORY_MAX_TOKENS |-> NULL]
\* the row of the Basic tier (seed_data.py lines 100-119), scaled
BasicRow == [tokenize_threshold |-> TOKENIZE_THRESHOLD,
             tokenized_history_block_size |-> TOKENIZED_HISTORY_BLOCK_SIZE,
             max_tokenized_history_block |-> MAX_TOKENIZED_HISTORY_BLOCK,
             deep_memory_max_tokens |-> 12]
\* no tier settings read
NoTier ==
    /\ account_level = NULL
    /\ directive_rows = <<BasicRow>>
    /\ tier_cache = <<>>
    /\ limits = NoLimits

\* no lookup query
NoQuery ==
    /\ query = [text |-> <<>>, sections |-> <<>>]
    /\ query_terms = <<>>
    /\ selected = <<>>

Init ==
    /\ InitGame /\ NoTurn /\ NoThreads /\ NoText /\ NoSettings /\ NoQuery
    /\ NoTier

(***************************************************************************)
(* Token counting as the API server sees it (api/ai_client_requests.py).   *)
(***************************************************************************)
\* ai_calculate_token_count(text): the tokenizer's count of the text
CalculateTokenCount(text) == text

\* ensure_history_token_counts: fill the rows whose token_count is NULL
EnsureHistoryTokenCounts(h) ==
    {IF r.token_count = NULL
        THEN [r EXCEPT !.token_count = CalculateTokenCount(r.text)]
        ELSE r : r \in h}

(***************************************************************************)
(* Trigger A: check_and_tokenize_history.                                  *)
(***************************************************************************)
\* untokenized = [h for h in all_history if not h.is_tokenized]
Untokenized(h) == {r \in h : r.is_tokenized = 0}

\* sum(h.token_count or 0 for h in untokenized)
TotalUntokenizedTokens(h) ==
    LET s == OrderByEntryIndex(Untokenized(h))
    IN SumSeq([i \in 1..Len(s) |->
                 IF s[i].token_count = NULL THEN 0 ELSE s[i].token_count])

\* the rows .order_by(end_index.desc()).first() may return: every chunk of
\* the game is a candidate, whatever its is_tokenized
LatestTokenized(cs) == {c \in cs : \A d \in cs : d.end_index <= c.end_index}

\* variant: merging up to a full block (utilization < 1.0)
ShouldMerge_UpToFull(latest) ==
    /\ Truthy(latest.token_count)
    /\ 10 * latest.token_count < 10 * TOKENIZED_HISTORY_BLOCK_SIZE

\* latest_tokenized and latest_tokenized.token_count and utilization < 0.9
ShouldMerge(latest) ==
    /\ Truthy(latest.token_count)
    /\ 10 * latest.token_count < 9 * TOKENIZED_HISTORY_BLOCK_SIZE

\* combined_token_count of the merge branch
CombinedTokenCount(latest, n) ==
    IF latest.summary /= 0 THEN latest.token_count + n ELSE n

\* the merge is kept: should_merge and not (combined > block size)
MergeKept(latest, n) ==
    /\ ShouldMerge(latest)
    /\ ~(CombinedTokenCount(latest, n) > TOKENIZED_HISTORY_BLOCK_SIZE)

Ids(entries) == [i \in 1..Len(entries) |-> entries[i].id]

\* What the tokenizer counts for two texts joined by a line break, beyond
\* the sum of the counts of the two texts taken alone: the line break and
\* the tokens that change at the seam.  The counts of the parts do not
\* decide it, and check_and_tokenize_history never asks the tokenizer.
SeamTokens == {0, 1}

\* f"{latest_tokenized.summary}\n{new_summary}", or new_summary alone when
\* the latest summary is empty
CombinedSummary(latest, n, seam) ==
    IF latest.summary /= 0 THEN latest.summary + seam + n ELSE n

\* lines 238-242: the latest chunk updated with the merged content
MergedChunk(latest, entries, n, seam) ==
    [latest EXCEPT
        !.summary = CombinedSummary(latest, n, seam),
        !.token_count = CombinedTokenCount(latest, n),
        !.end_index = entries[Len(entries)].entry_index,
        !.history_references = latest.history_references \o Ids(entries)]

\* lines 246-254: TokenizedHistory(...) over the new entries only
NewTokenized(id, entries, summary, token_count) ==
    [id |-> id,
     start_index |-> entries[1].entry_index,
     end_index |-> entries[Len(entries)].entry_index,
     summary |-> summary,
     token_count |-> token_count,
     is_tokenized |-> 0,
     history_references |-> Ids(entries)]

\* variant: the entries of the chunk left unmarked
MarkTokenized_Unmarked(h, ids) == h

\* variant: only the oldest of the entries is marked
MarkTokenized_OldestOnly(h, ids) ==
    {IF r.id \in ids /\ \A other \in ids : r.id <= other
     THEN [r EXCEPT !.is_tokenized = 1] ELSE r : r \in h}

\* lines 258-260: for entry in chunk_entries: entry.is_tokenized = 1
MarkTokenized(h, ids) ==
    {IF r.id \in ids THEN [r EXCEPT !.is_tokenized = 1] ELSE r : r \in h}

\* variant: the failure of Trigger A swallowed by the endpoint
StatusAfterTokenize_Swallowed(raised) == "201"

\* create_history_entry calls check_and_tokenize_history outside any
\* try/except: an exception from it is the request's answer (500),
\* otherwise the declared status_code=201
StatusAfterTokenize(raised) == IF raised THEN "500" ELSE "201"

\* the append request returns (or raises) and the server is idle again
Return(status) ==
    /\ pc' = "idle"
    /\ response' = IF new_history = NULL THEN response ELSE status
    /\ new_history' = NULL

(***************************************************************************)
(* perform_create_saved_game: a new game with its initial history and      *)
(* tokenized history blocks, then check_and_tokenize_history.              *)
(***************************************************************************)
InitialBlocks == {<<>>, <<[start_index |-> 0, end_index |-> 0, summary |-> 4]>>}

\* the handler, for a request whose tokenized_history is one of `blocks`
PerformCreateSavedGameWith(blocks) ==
    /\ pc = "new"
    /\ \E k \in 0..MaxInitialHistory, t \in EntryTokens, th \in blocks :
        /\ history' = {NewHistoryRow(i + 1, i, t) : i \in 0..(k - 1)}
        /\ chunks' = {[id |-> j,
                       start_index |-> th[j].start_index,
                       end_index |-> th[j].end_index,
                       summary |-> th[j].summary,
                       token_count |-> NULL,
                       is_tokenized |-> 0,
                       history_references |-> <<>>] : j \in 1..Len(th)}
        /\ next_id' = k + 1
        /\ next_chunk_id' = Len(th) + 1
    /\ pc' = "tokenize"
    /\ UNCHANGED <<deep_memory, new_history, response, summarize_calls,
                   lastA, lastB, last_deleted, manual,
                   turn_vars, conc_vars, pure_vars>>

PerformCreateSavedGame == PerformCreateSavedGameWith(InitialBlocks)

(***************************************************************************)
(* create_history_entry up to its call of check_and_tokenize_history.      *)
(***************************************************************************)
\* the handler, while fewer than `limit` rows were ever inserted
CreateHistoryEntryUpTo(limit) ==
    /\ pc = "idle"
    /\ next_id <= limit
    /\ \E text \in EntryTokens :
        history' = history \cup
            {NewHistoryRow(next_id, NextEntryIndex(history), text)}
    /\ new_history' = next_id
    /\ next_id' = next_id + 1
    /\ pc' = "tokenize"
    /\ response' = "none"
    /\ summarize_calls' = 0
    /\ lastA' = NoA
    /\ lastB' = NoB
    /\ last_deleted' = NULL
    /\ UNCHANGED <<chunks, deep_memory, next_chunk_id, manual,
                   turn_vars, conc_vars, pure_vars>>

CreateHistoryEntry == CreateHistoryEntryUpTo(MaxHistory)

\* check_and_tokenize_history returns before the threshold test passes
TokenizeNotNeeded ==
    /\ pc = "tokenize"
    /\ LET counted == EnsureHistoryTokenCounts(history)
       IN /\ \/ history = {}
             \/ Untokenized(counted) = {}
             \/ TotalUntokenizedTokens(counted) < TOKENIZE_THRESHOLD
          /\ history' = counted
    /\ Return(StatusAfterTokenize(FALSE))
    /\ UNCHANGED <<chunks, deep_memory, next_id, next_chunk_id,
                   summarize_calls, lastA, lastB, last_deleted, manual,
                   turn_vars, conc_vars, pure_vars>>

\* the threshold is reached and ai_summarize_chunk raises: the exception
\* leaves check_and_tokenize_history and the request handler
TokenizeSummarizeRaises ==
    /\ pc = "tokenize"
    /\ LET counted == EnsureHistoryTokenCounts(history)
       IN /\ Untokenized(counted) /= {}
          /\ TotalUntokenizedTokens(counted) >= TOKENIZE_THRESHOLD
          /\ history' = counted
          /\ lastA' = [NoA EXCEPT !.kind = "raised", !.before = chunks,
                                  !.untokenized = Untokenized(counted),
                                  !.appended = new_history]
    /\ summarize_calls' = summarize_calls + 1
    /\ Return(StatusAfterTokenize(TRUE))
    /\ UNCHANGED <<chunks, deep_memory, next_id, next_chunk_id,
                   lastB, last_deleted, manual,
                   turn_vars, conc_vars, pure_vars>>

\* the threshold is reached and the summary comes back: merge or new chunk,
\* the entries marked, one commit
TokenizeCommit ==
    /\ pc = "tokenize"
    /\ LET counted == EnsureHistoryTokenCounts(history)
           chunk_entries == OrderByEntryIndex(Untokenized(counted))
       IN /\ Untokenized(counted) /= {}
          /\ TotalUntokenizedTokens(counted) >= TOKENIZE_THRESHOLD
          /\ \E n \in SummaryTokens, seam \in SeamTokens :
             \E target \in (IF chunks = {} THEN {{}}
                            ELSE {{c} : c \in LatestTokenized(chunks)}) :
                LET merge == target /= {} /\
                             \A latest \in target : MergeKept(latest, n)
                IN /\ chunks' =
                        IF merge
                        THEN (chunks \ target) \cup
                             {MergedChunk(latest, chunk_entries, n, seam) :
                                 latest \in target}
                        ELSE chunks \cup
                             {NewTokenized(next_chunk_id, chunk_entries, n,
                                           CalculateTokenCount(n))}
                   /\ next_chunk_id' =
                        IF merge THEN next_chunk_id ELSE next_chunk_id + 1
                   /\ lastA' = [kind |-> IF merge THEN "merge" ELSE "new",
                                target |-> target,
                                new_ids |-> Ids(chunk_entries),
                                new_tokens |-> CalculateTokenCount(n),
                                before |-> chunks,
                                untokenized |-> Untokenized(counted),
                                appended |-> new_history]
          /\ history' = MarkTokenized(counted, SeqToSet(Ids(chunk_entries)))
    /\ summarize_calls' = summarize_calls + 1
    /\ pc' = "compress"
    /\ UNCHANGED <<deep_memory, next_id, new_history, response,
                   lastB, last_deleted, manual,
                   turn_vars, conc_vars, pure_vars>>

(***************************************************************************)
(* Trigger B: compress_old_chunks_to_deep_memory.                          *)
(***************************************************************************)
\* TokenizedHistory.is_tokenized == 0
ActiveChunks(cs) == {c \in cs : c.is_tokenized = 0}

\* variant: compressing down to the limit, without the two extra chunks
ChunksToCompress_ToLimit(cs) ==
    Cardinality(ActiveChunks(cs)) - MAX_TOKENIZED_HISTORY_BLOCK

\* chunks_to_compress = chunk_count - MAX_TOKENIZED_HISTORY_BLOCK + 2
ChunksToCompress(cs) ==
    Cardinality(ActiveChunks(cs)) - MAX_TOKENIZED_HISTORY_BLOCK + 2

\* the results .order_by(end_index.asc()).limit(chunks_to_compress).all()
\* may return (equal end_index in either order)
OldChunks(cs) ==
    LET active == ActiveChunks(cs)
        limit == IF ChunksToCompress(cs) < Cardinality(active)
                    THEN ChunksToCompress(cs) ELSE Cardinality(active)
    IN {S \in SUBSET active :
          /\ Cardinality(S) = limit
          /\ \A o \in S, c \in active \ S : o.end_index <= c.end_index}

\* variant: old_chunks[0].end_index, the first of the ordered list
LastEndIndex_First(old_chunks) == Min({c.end_index : c \in old_chunks})

\* old_chunks[-1].end_index
LastEndIndex(old_chunks) == Max({c.end_index : c \in old_chunks})

\* lines 325-343: the deep memory updated in place, or created
MergedDeepMemory(dm, old_chunks, deep_summary) ==
    IF dm = {}
    THEN {[id |-> 1,
           summary |-> deep_summary,
           token_count |-> CalculateTokenCount(deep_summary),
           chunks_merged |-> Cardinality(old_chunks),
           last_merged_end_index |-> LastEndIndex(old_chunks)]}
    ELSE LET first == CHOOSE d \in dm : \A e \in dm : d.id <= e.id
         IN (dm \ {first}) \cup
            {[first EXCEPT
                !.summary = deep_summary,
                !.token_count = CalculateTokenCount(deep_summary),
                !.chunks_merged = first.chunks_merged + Cardinality(old_chunks),
                !.last_merged_end_index = LastEndIndex(old_chunks)]}

\* lines 347-348: for chunk in old_chunks: chunk.is_tokenized = 1
MarkCompressed(cs, old_chunks) ==
    {IF c \in old_chunks THEN [c EXCEPT !.is_tokenized = 1] ELSE c : c \in cs}

\* chunk_count <= MAX_TOKENIZED_HISTORY_BLOCK: return
CompressNotNeeded ==
    /\ pc = "compress"
    /\ Cardinality(ActiveChunks(chunks)) <= MAX_TOKENIZED_HISTORY_BLOCK
    /\ Return(StatusAfterTokenize(FALSE))
    /\ lastA' = NoA
    /\ UNCHANGED <<history, chunks, deep_memory, next_id, next_chunk_id,
                   summarize_calls, lastB, last_deleted, manual,
                   turn_vars, conc_vars, pure_vars>>

\* ai_deep_summarize_chunk raises: nothing of Trigger B is committed
CompressRaises ==
    /\ pc = "compress"
    /\ Cardinality(ActiveChunks(chunks)) > MAX_TOKENIZED_HISTORY_BLOCK
    /\ Return(StatusAfterTokenize(TRUE))
    /\ lastA' = NoA
    /\ lastB' = [kind |-> "raised", before |-> chunks,
                 deep_before |-> deep_memory]
    /\ UNCHANGED <<history, chunks, deep_memory, next_id, next_chunk_id,
                   summarize_calls, last_deleted, manual,
                   turn_vars, conc_vars, pure_vars>>

\* the oldest active chunks merged into the deep memory, one commit
CompressCommit ==
    /\ pc = "compress"
    /\ Cardinality(ActiveChunks(chunks)) > MAX_TOKENIZED_HISTORY_BLOCK
    /\ \E old_chunks \in OldChunks(chunks), deep_summary \in DeepTokens :
        /\ deep_memory' = MergedDeepMemory(deep_memory, old_chunks, deep_summary)
        /\ chunks' = MarkCompressed(chunks, old_chunks)
    /\ Return(StatusAfterTokenize(FALSE))
    /\ lastA' = NoA
    /\ lastB' = [kind |-> "compressed", before |-> chunks,
                 deep_before |-> deep_memory]
    /\ UNCHANGED <<history, next_id, next_chunk_id,
                   summarize_calls, last_deleted, manual,
                   turn_vars, conc_vars, pure_vars>>

(***************************************************************************)
(* The other history and tokenized-history endpoints.                      *)
(***************************************************************************)
RECURSIVE RemoveFirst(_, _)
\* list.remove(x): the first occurrence only
RemoveFirst(s, x) ==
    IF s = <<>> THEN <<>>
    ELSE IF Head(s) = x THEN Tail(s)
    ELSE <<Head(s)>> \o RemoveFirst(Tail(s), x)

\* lines 83-95 of delete_history_entry: the chunks after the clean-up
CleanReferences(cs, history_id) ==
    LET hit(c) == c.history_references /= <<>> /\
                  history_id \in SeqToSet(c.history_references)
        left(c) == RemoveFirst(c.history_references, history_id)
    IN {c \in cs : ~hit(c)} \cup
       {[c EXCEPT !.history_references = left(c)] :
            c \in {d \in cs : hit(d) /\ left(d) /= <<>>}}

OtherRequest(deleted) ==
    /\ pc = "idle"
    /\ last_deleted' = deleted
    /\ manual < MaxManual
    /\ manual' = manual + 1
    /\ lastA' = NoA
    /\ lastB' = NoB
    /\ response' = "none"
    /\ summarize_calls' = 0

DeleteHistoryEntry ==
    /\ \E r \in history :
        /\ OtherRequest(r.id)
        /\ chunks' = CleanReferences(chunks, r.id)
        /\ history' = history \ {r}
    /\ UNCHANGED <<deep_memory, next_id, next_chunk_id, pc, new_history,
                   turn_vars, conc_vars, pure_vars>>

UpdateHistoryEntry ==
    /\ OtherRequest(NULL)
    /\ \E r \in history, text \in EntryTokens :
        history' = (history \ {r}) \cup
            {[r EXCEPT !.text = text,
                       !.token_count = CalculateTokenCount(text)]}
    /\ UNCHANGED <<chunks, deep_memory, next_id, next_chunk_id, pc,
                   new_history,
                   turn_vars, conc_vars, pure_vars>>

\* indexes and summaries a client sends for a chunk
ClientIndexes == 0..1
ClientSummaries == {0, 4}

CreateTokenizedHistoryEntry ==
    /\ OtherRequest(NULL)
    /\ \E start \in ClientIndexes, end \in ClientIndexes,
          summary \in ClientSummaries :
        chunks' = chunks \cup
            {[id |-> next_chunk_id, start_index |-> start, end_index |-> end,
              summary |-> summary, token_count |-> NULL, is_tokenized |-> 0,
              history_references |-> <<>>]}
    /\ next_chunk_id' = next_chunk_id + 1
    /\ UNCHANGED <<history, deep_memory, next_id, pc, new_history,
                   turn_vars, conc_vars, pure_vars>>

UpdateTokenizedHistoryEntry ==
    /\ OtherRequest(NULL)
    /\ \E c \in chunks :
        \/ \E summary \in ClientSummaries :
             chunks' = (chunks \ {c}) \cup
                {[c EXCEPT !.summary = summary,
                           !.token_count = CalculateTokenCount(summary)]}
        \/ \E start \in ClientIndexes :
             chunks' = (chunks \ {c}) \cup {[c EXCEPT !.start_index = start]}
        \/ \E end \in ClientIndexes :
             chunks' = (chunks \ {c}) \cup {[c EXCEPT !.end_index = end]}
    /\ UNCHANGED <<history, deep_memory, next_id, next_chunk_id, pc,
                   new_history,
                   turn_vars, conc_vars, pure_vars>>

DeleteTokenizedHistoryEntry ==
    /\ OtherRequest(NULL)
    /\ \E c \in chunks : chunks' = chunks \ {c}
    /\ UNCHANGED <<history, deep_memory, next_id, next_chunk_id, pc,
                   new_history,
                   turn_vars, conc_vars, pure_vars>>

Next ==
    \/ PerformCreateSavedGame
    \/ CreateHistoryEntry
    \/ TokenizeNotNeeded
    \/ TokenizeSummarizeRaises
    \/ TokenizeCommit
    \/ CompressNotNeeded
    \/ CompressRaises
    \/ CompressCommit
    \/ DeleteHistoryEntry
    \/ UpdateHistoryEntry
    \/ CreateTokenizedHistoryEntry
    \/ UpdateTokenizedHistoryEntry
    \/ DeleteTokenizedHistoryEntry

Spec == Init /\ [][Next]_vars

(***************************************************************************)
(* DeepSpec: a long-running game.  The same handlers as Spec, for a game   *)
(* that may be created from four summary blocks of an earlier story and    *)
(* is appended to long enough for Trigger B to run more than once, plus    *)
(* the deep-memory endpoints (api/services/deep_memory_service.py).        *)
(***************************************************************************)
\* rows ever inserted into story_history in DeepSpec
MaxDeepHistory == 4

\* tokenized_history of the create request: none, or four blocks
FourBlocks ==
    <<[start_index |-> 0, end_index |-> 1, summary |-> 4],
      [start_index |-> 2, end_index |-> 3, summary |-> 4],
      [start_index |-> 4, end_index |-> 5, summary |-> 4],
      [start_index |-> 6, end_index |-> 7, summary |-> 4]>>
DeepInitialBlocks == {<<>>, FourBlocks}

DeepCreateSavedGame == PerformCreateSavedGameWith(DeepInitialBlocks)

DeepCreateHistoryEntry == CreateHistoryEntryUpTo(MaxDeepHistory)

\* perform_create_deep_memory: refused (400) when the game has one
CreateDeepMemory ==
    /\ OtherRequest(NULL)
    /\ deep_memory = {}
    /\ \E summary \in DeepTokens :
        deep_memory' = {[id |-> 1,
                         summary |-> summary,
                         token_count |-> CalculateTokenCount(summary),
                         chunks_merged |-> 0,
                         last_merged_end_index |-> 0]}
    /\ UNCHANGED <<history, chunks, next_id, next_chunk_id, pc, new_history,
                   turn_vars, conc_vars, pure_vars>>

\* perform_update_deep_memory: the summary and its token count only
UpdateDeepMemory ==
    /\ OtherRequest(NULL)
    /\ \E d \in deep_memory, summary \in DeepTokens \cup ClientSummaries :
        deep_memory' = (deep_memory \ {d}) \cup
            {[d EXCEPT !.summary = summary,
                       !.token_count = CalculateTokenCount(summary)]}
    /\ UNCHANGED <<history, chunks, next_id, next_chunk_id, pc, new_history,
                   turn_vars, conc_vars, pure_vars>>

DeepNext ==
    \/ DeepCreateSavedGame
    \/ DeepCreateHistoryEntry
    \/ TokenizeNotNeeded
    \/ TokenizeSummarizeRaises
    \/ TokenizeCommit
    \/ CompressNotNeeded
    \/ CompressRaises
    \/ CompressCommit
    \/ DeleteHistoryEntry
    \/ UpdateHistoryEntry
    \/ CreateTokenizedHistoryEntry
    \/ UpdateTokenizedHistoryEntry
    \/ DeleteTokenizedHistoryEntry
    \/ CreateDeepMemory
    \/ UpdateDeepMemory

DeepSpec == Init /\ [][DeepNext]_vars

(***************************************************************************)
(* TurnSpec: generate_from_game on the AI server.                          *)
(*                                                                         *)
(* A prompt is the sequence of its sections, each with the tokens the      *)
(* story tokenizer counts for it; the count of the prompt is their sum.    *)
(***************************************************************************)
\* settings.get("SAFE_PROMPT_LIMIT"), settings.get("RECENT_MEMORY_LIMIT"),
\* scaled
SAFE_PROMPT_LIMIT == 10
RECENT_MEMORY_LIMIT == 2
\* max_retries = 15
max_retries == 15

\* longest tokenized_history and history of a request
MaxBlocks == 4
MaxStory == 3
\* tokens of the base prompt (directives, universe, player, rating) and of
\* action_text (the player's action and the story splitter)
BaseTokens == {3, 6}
ActionTokens == {2, 5}
\* tokens of deep_section (0: no deep memory in the request)
DeepSectionTokens == {0, 2, 4}
\* tokens of a block's f"{summary}\n\n" (0: the summary is empty)
BlockTokens == {0, 2, 5}
\* tokens of an entry's f"{entry.strip()}\n\n"
EntryTextTokens == {1, 3}
\* tokens of the section headers "# Past Events:\n" and "# Recent Story:\n"
history_section == 1
story_section == 1

SeqsUpTo(S, n) == UNION {[1..k -> S] : k \in 0..n}
Reverse(s) == [i \in 1..Len(s) |-> s[Len(s) + 1 - i]]
\* s[-n:] for n > 0
LastN(s, n) == IF Len(s) <= n THEN s ELSE SubSeq(s, Len(s) - n + 1, Len(s))

\* a section of the prompt; item is the position, in the list the assembler
\* was given, of the block or entry the section is the text of (0: none)
Section(kind, tokens) == [kind |-> kind, tokens |-> tokens, item |-> 0]
\* len(STORY_TOKENIZER.encode(prompt))
Count(p) == SumSeq([i \in 1..Len(p) |-> p[i].tokens])

\* the blocks or entries of a list, each with its position and the tokens
\* of its text
Numbered(texts) ==
    [i \in 1..Len(texts) |-> [item |-> i, tokens |-> texts[i]]]

\* variant: a block that does not fit is cut down to the tokens left
RECURSIVE BlocksToInclude_Truncating(_, _)
BlocksToInclude_Truncating(recent_blocks, available_tokens) ==
    IF recent_blocks = <<>>
    THEN [included |-> <<>>, available_tokens |-> available_tokens]
    ELSE LET block == Head(recent_blocks)
             block_tokens == block.tokens
         IN IF block_tokens = 0
            THEN BlocksToInclude_Truncating(Tail(recent_blocks),
                                            available_tokens)
            ELSE IF block_tokens <= available_tokens
            THEN LET rest == BlocksToInclude_Truncating(
                                Tail(recent_blocks),
                                available_tokens - block_tokens)
                 IN [included |-> rest.included \o <<block>>,
                     available_tokens |-> rest.available_tokens]
            ELSE [included |->
                     <<[block EXCEPT !.tokens = available_tokens]>>,
                  available_tokens |-> 0]

\* variant: a block that does not fit is passed over and the walk goes on
RECURSIVE BlocksToInclude_Skipping(_, _)
BlocksToInclude_Skipping(recent_blocks, available_tokens) ==
    IF recent_blocks = <<>>
    THEN [included |-> <<>>, available_tokens |-> available_tokens]
    ELSE LET block == Head(recent_blocks)
         IN IF block.tokens /= 0 /\ block.tokens <= available_tokens
            THEN LET rest == BlocksToInclude_Skipping(Tail(recent_blocks),
                                 available_tokens - block.tokens)
                 IN [included |-> rest.included \o <<block>>,
                     available_tokens |-> rest.available_tokens]
            ELSE BlocksToInclude_Skipping(Tail(recent_blocks),
                                          available_tokens)

\* the loop over recent_blocks (newest first): a block with an empty
\* summary is skipped, a block that fits is inserted at the front, the
\* first block that does not fit ends the loop
RECURSIVE BlocksToInclude(_, _)
BlocksToInclude(recent_blocks, available_tokens) ==
    IF recent_blocks = <<>>
    THEN [included |-> <<>>, available_tokens |-> available_tokens]
    ELSE LET block == Head(recent_blocks)
             block_tokens == block.tokens
         IN IF block_tokens = 0
            THEN BlocksToInclude(Tail(recent_blocks), available_tokens)
            ELSE IF block_tokens <= available_tokens
            THEN LET rest == BlocksToInclude(Tail(recent_blocks),
                                             available_tokens - block_tokens)
                 IN [included |-> rest.included \o <<block>>,
                     available_tokens |-> rest.available_tokens]
            ELSE [included |-> <<>>, available_tokens |-> available_tokens]

\* variant: an entry that does not fit is passed over and the loop goes on
\* with the older entries
RECURSIVE EntriesToInclude_Skipping(_, _)
EntriesToInclude_Skipping(recent_entries, available_tokens) ==
    IF recent_entries = <<>>
    THEN [included |-> <<>>, available_tokens |-> available_tokens]
    ELSE LET entry == Head(recent_entries)
             entry_tokens == entry.tokens
         IN IF entry_tokens <= available_tokens
            THEN LET rest == EntriesToInclude_Skipping(
                                Tail(recent_entries),
                                available_tokens - entry_tokens)
                 IN [included |-> rest.included \o <<entry>>,
                     available_tokens |-> rest.available_tokens]
            ELSE EntriesToInclude_Skipping(Tail(recent_entries),
                                           available_tokens)

\* the loop over recent_entries (newest first)
RECURSIVE EntriesToInclude(_, _)
EntriesToInclude(recent_entries, available_tokens) ==
    IF recent_entries = <<>>
    THEN [included |-> <<>>, available_tokens |-> available_tokens]
    ELSE LET entry == Head(recent_entries)
             entry_tokens == entry.tokens
         IN IF entry_tokens <= available_tokens
            THEN LET rest == EntriesToInclude(Tail(recent_entries),
                                              available_tokens - entry_tokens)
                 IN [included |-> rest.included \o <<entry>>,
                     available_tokens |-> rest.available_tokens]
            ELSE [included |-> <<>>, available_tokens |-> available_tokens]

\* available_tokens = SAFE_PROMPT_LIMIT - tokens_used, after the base
\* prompt and the action text
AvailableTokens(json_data) ==
    SAFE_PROMPT_LIMIT - (json_data.base + json_data.action)

\* structured_json of generate_from_game: the last blocks and entries
StructuredJson(r) ==
    [r EXCEPT
        !.tokenized_history =
            LastN(r.tokenized_history, MAX_TOKENIZED_HISTORY_BLOCK),
        !.history = LastN(r.history, RECENT_MEMORY_LIMIT)]

\* the texts of the included blocks or entries, in the order of `included`
Sections(kind, included) ==
    [i \in 1..Len(included) |->
        [kind |-> kind, tokens |-> included[i].tokens,
         item |-> included[i].item]]

\* flatten_json_prompt: always returns the prompt
FlattenJsonPrompt(json_data) ==
    LET available0 == AvailableTokens(json_data)
        deep_tokens == json_data.deep_memory
        deep_fits == /\ deep_tokens /= 0
                     /\ available0 > 0
                     /\ deep_tokens <= available0
        available1 == IF deep_fits THEN available0 - deep_tokens
                      ELSE available0
        none1 == [included |-> <<>>, available_tokens |-> available1]
        blocks ==
            IF json_data.tokenized_history /= <<>> /\ available1 > 0
            THEN BlocksToInclude(
                    Reverse(LastN(Numbered(json_data.tokenized_history),
                                  MAX_TOKENIZED_HISTORY_BLOCK)),
                    available1)
            ELSE none1
        none2 == [included |-> <<>>,
                  available_tokens |-> blocks.available_tokens]
        entries ==
            IF json_data.history /= <<>> /\ blocks.available_tokens > 0
            THEN EntriesToInclude(Reverse(Numbered(json_data.history)),
                                  blocks.available_tokens)
            ELSE none2
    IN <<Section("base", json_data.base)>>
       \o (IF deep_fits THEN <<Section("deep", deep_tokens)>> ELSE <<>>)
       \o (IF blocks.included /= <<>>
           THEN <<Section("history_section", history_section)>>
                \o Sections("block", blocks.included)
           ELSE <<>>)
       \o (IF entries.included /= <<>>
           THEN <<Section("story_section", story_section)>>
                \o Sections("entry", entries.included)
           ELSE <<>>)
       \o <<Section("action", json_data.action)>>

\* The text a generation decodes to, as its pieces in order: a run of
\* prose, the word "Chapter", a section number with its colon ("1.2:"),
\* the story splitter of the request, the character "#", a keyword of the
\* prompt artifacts ("Continue", "Recent Story", ...), the speaker label
\* "Narrator:" and a line break.  Pieces of a line are separated by blanks.
Pieces == {"prose", "Chapter", "1.2:", "splitter", "#", "Continue",
           "Narrator:", "newline"}

\* str.lstrip, str.rstrip, str.strip
RECURSIVE LStrip(_)
LStrip(t) ==
    IF t /= <<>> /\ Head(t) = "newline" THEN LStrip(Tail(t)) ELSE t
RStrip(t) == Reverse(LStrip(Reverse(t)))
Strip(t) == RStrip(LStrip(t))

\* the first piece at or after i that is not a line break (Len(t) + 1: none)
NextPiece(t, i) ==
    Min({j \in i..Len(t) : t[j] /= "newline"} \union {Len(t) + 1})
\* the last piece of the line of piece j
EndOfLine(t, j) ==
    Min({k \in j..Len(t) : k = Len(t) \/ t[k + 1] = "newline"})
\* "^" and "$" under re.MULTILINE, white space aside
FirstOnLine(t, i) == i = 1 \/ t[i - 1] = "newline"
LastOnLine(t, j) == j = Len(t) \/ t[j + 1] = "newline"
\* t without the pieces at the positions of drop
Without(t, drop) ==
    LET keep == {i \in 1..Len(t) : i \notin drop}
    IN [k \in 1..Cardinality(keep) |->
            t[CHOOSE i \in keep : Cardinality({j \in keep : j <= i}) = k]]

\* lines 114-115: a stop token the stripped text starts with is cut off,
\* once
RemoveStopToken(t, stop_token) ==
    IF Strip(t) /= <<>> /\ Head(Strip(t)) = stop_token
    THEN LStrip(Tail(Strip(t)))
    ELSE t
\* line 113: for stop_token in settings.get("STOP_TOKENS", "")
RECURSIVE RemoveStopTokens(_, _)
RemoveStopTokens(t, stops) ==
    IF stops = <<>> THEN t
    ELSE RemoveStopTokens(RemoveStopToken(t, Head(stops)), Tail(stops))

\* line 120: the lines that are only "Chapter 1.2:" are emptied (\s+ between
\* the word and the number also matches a line break)
RemoveChapterLines(t) ==
    Without(t, UNION {i..NextPiece(t, i + 1) : i \in
        {i \in 1..Len(t) :
            /\ t[i] = "Chapter"
            /\ FirstOnLine(t, i)
            /\ NextPiece(t, i + 1) <= Len(t)
            /\ t[NextPiece(t, i + 1)] = "1.2:"
            /\ LastOnLine(t, NextPiece(t, i + 1))}})
\* line 122: the lines that are only "1.2:" are emptied
RemoveNumberLines(t) ==
    Without(t, {i \in 1..Len(t) :
                    t[i] = "1.2:" /\ FirstOnLine(t, i) /\ LastOnLine(t, i)})
\* line 124: "Chapter 1.2:" at the start of the text is cut off (no
\* re.MULTILINE: "^" is the start of the text only)
RemoveInlineChapter(t) ==
    LET s == LStrip(t)
    IN IF /\ s /= <<>>
          /\ Head(s) = "Chapter"
          /\ NextPiece(s, 2) <= Len(s)
          /\ s[NextPiece(s, 2)] = "1.2:"
       THEN LStrip(SubSeq(s, NextPiece(s, 2) + 1, Len(s)))
       ELSE t
\* line 125: "1.2:" at the start of the text is cut off
RemoveInlineNumber(t) ==
    IF LStrip(t) /= <<>> /\ Head(LStrip(t)) = "1.2:"
    THEN LStrip(Tail(LStrip(t)))
    ELSE t
\* text.split(story_splitter)[-1]
AfterLastSplitter(t) ==
    LET at == {i \in 1..Len(t) : t[i] = "splitter"}
    IN IF at = {} THEN t ELSE SubSeq(t, Max(at) + 1, Len(t))
\* lines 128-129
CutAtSplitter(t) ==
    IF \E i \in 1..Len(t) : t[i] = "splitter"
    THEN Strip(AfterLastSplitter(t))
    ELSE t
\* line 132: "#", a keyword after it and the rest of the keyword's line
\* are removed, match after match from the left
RECURSIVE RemoveArtifacts(_)
RemoveArtifacts(t) ==
    IF t = <<>> THEN <<>>
    ELSE IF /\ Head(t) = "#"
            /\ NextPiece(t, 2) <= Len(t)
            /\ t[NextPiece(t, 2)] = "Continue"
         THEN RemoveArtifacts(
                  SubSeq(t, EndOfLine(t, NextPiece(t, 2)) + 1, Len(t)))
         ELSE <<Head(t)>> \o RemoveArtifacts(Tail(t))

\* lines 112-133, in the order of the code: stop tokens, marker lines,
\* markers at the start, the cut at the splitter, artifacts, strip.  The
\* white space a pattern takes along with its match is left in place.
Sanitize(t, stops) ==
    Strip(RemoveArtifacts(CutAtSplitter(RemoveInlineNumber(
        RemoveInlineChapter(RemoveNumberLines(RemoveChapterLines(
            RemoveStopTokens(t, stops))))))))

\* STOP_TOKENS of the seeded settings row
STOP_TOKENS == <<"Narrator:", "#", "Chapter">>
\* the texts the generations of TurnSpec decode to
GeneratedPieces == {"prose", "splitter", "newline"}
MaxGenerated == 2
GeneratedTexts == SeqsUpTo(GeneratedPieces, MaxGenerated)
\* what lines 112-133 leave of them
SanitizedTexts == {Sanitize(output, STOP_TOKENS) : output \in GeneratedTexts}

TurnInit ==
    /\ NoTier
    /\ NoQuery
    /\ InitGame
    /\ NoThreads
    /\ NoText
    /\ NoSettings
    /\ request \in [base : BaseTokens, action : ActionTokens,
                    deep_memory : DeepSectionTokens,
                    tokenized_history : SeqsUpTo(BlockTokens, MaxBlocks),
                    history : SeqsUpTo(EntryTextTokens, MaxStory)]
    /\ prompt = <<>>
    /\ turn_pc = "assemble"
    /\ attempt = 0
    /\ story = <<>>

\* prompt = flatten_json_prompt(structured_json, settings, tokenizer)
AssemblePrompt ==
    /\ turn_pc = "assemble"
    /\ prompt' = FlattenJsonPrompt(StructuredJson(request))
    /\ turn_pc' = "generate"
    /\ UNCHANGED <<request, attempt, story, db_vars, serial_vars, conc_vars, pure_vars>>

\* variant: the loop goes on to the next attempt whatever the text is
AfterAttempt_RetryAlways(text, n) ==
    IF n = max_retries THEN "done" ELSE "generate"

\* lines 135-136 and the end of range(1, max_retries + 1): the loop is left
\* on a text that is not empty and after the last attempt
AfterAttempt(text, n) ==
    IF text /= <<>> THEN "done"
    ELSE IF n = max_retries THEN "done" ELSE "generate"

\* one pass of the retry loop whose text is not empty: break
GenerateStory ==
    /\ turn_pc = "generate"
    /\ attempt < max_retries
    /\ \E text \in SanitizedTexts :
        /\ text /= <<>>
        /\ story' = text
        /\ turn_pc' = AfterAttempt(text, attempt + 1)
    /\ attempt' = attempt + 1
    /\ UNCHANGED <<request, prompt, db_vars, serial_vars, conc_vars, pure_vars>>

\* one pass whose text is empty: the next attempt, or the end of the loop
GenerateEmpty ==
    /\ turn_pc = "generate"
    /\ attempt < max_retries
    /\ \E text \in SanitizedTexts :
        /\ text = <<>>
        /\ story' = text
        /\ turn_pc' = AfterAttempt(text, attempt + 1)
    /\ attempt' = attempt + 1
    /\ UNCHANGED <<request, prompt, db_vars, serial_vars, conc_vars, pure_vars>>

\* generator.generate raises (the model is not available, CUDA is out of
\* memory): the loop has no try/except, the exception ends the request
GenerateRaises ==
    /\ turn_pc = "generate"
    /\ attempt < max_retries
    /\ attempt' = attempt + 1
    /\ turn_pc' = "failed"
    /\ UNCHANGED <<request, prompt, story, db_vars, serial_vars, conc_vars, pure_vars>>

TurnNext ==
    \/ AssemblePrompt
    \/ GenerateStory
    \/ GenerateEmpty
    \/ GenerateRaises

TurnSpec == TurnInit /\ [][TurnNext]_vars

(***************************************************************************)
(* ConcSpec: two POST /history/ requests on the same game.  The handler    *)
(* of api.py is a plain def, which FastAPI runs in its thread pool, each   *)
(* request with its own database session; the code takes no lock.  A       *)
(* request is cut at its reads and its commits.                            *)
(***************************************************************************)
Threads == {1, 2}

NewThread == [pc |-> "start", max_entry_index |-> NULL,
              new_history |-> NULL, untokenized |-> {}, latest |-> {}]

\* the game as a new game with two one-token turns is left: both turns
\* archived into the first chunk
ConcInit ==
    /\ NoTier
    /\ NoQuery
    /\ history = {[id |-> i + 1, entry_index |-> i, text |-> 1,
                   token_count |-> 1, is_tokenized |-> 1] : i \in 0..1}
    /\ \E n \in SummaryTokens :
        chunks = {[id |-> 1, start_index |-> 0, end_index |-> 1,
                   summary |-> n, token_count |-> n, is_tokenized |-> 0,
                   history_references |-> <<1, 2>>]}
    /\ next_id = 3
    /\ next_chunk_id = 2
    /\ deep_memory = {}
    /\ pc = "idle"
    /\ new_history = NULL
    /\ response = "none"
    /\ summarize_calls = 0
    /\ lastA = NoA
    /\ lastB = NoB
    /\ last_deleted = NULL
    /\ manual = 0
    /\ NoTurn
    /\ NoText
    /\ NoSettings
    /\ threads = [t \in Threads |-> NewThread]

\* max_entry_index = db.query(func.max(StoryHistory.entry_index))...scalar()
ReadMaxEntryIndex(t) ==
    /\ threads[t].pc = "start"
    /\ threads' = [threads EXCEPT
                      ![t].max_entry_index = MaxEntryIndex(history),
                      ![t].pc = "read"]
    /\ UNCHANGED <<db_vars, serial_vars, turn_vars, pure_vars>>

\* db.add(new_history); db.commit()
InsertHistory(t) ==
    /\ threads[t].pc = "read"
    /\ \E entry \in EntryTokens :
        history' = history \cup
            {NewHistoryRow(next_id,
                           NextEntryIndexAfter(threads[t].max_entry_index),
                           entry)}
    /\ next_id' = next_id + 1
    /\ threads' = [threads EXCEPT ![t].new_history = next_id,
                                  ![t].pc = "inserted"]
    /\ UNCHANGED <<chunks, next_chunk_id, serial_vars, turn_vars, pure_vars>>

\* check_and_tokenize_history below the threshold
ThreadTokenizeNotNeeded(t) ==
    /\ threads[t].pc = "inserted"
    /\ LET counted == EnsureHistoryTokenCounts(history)
       IN /\ \/ Untokenized(counted) = {}
             \/ TotalUntokenizedTokens(counted) < TOKENIZE_THRESHOLD
          /\ history' = counted
    /\ threads' = [threads EXCEPT ![t].pc = "done"]
    /\ UNCHANGED <<chunks, next_id, next_chunk_id, serial_vars, turn_vars, pure_vars>>

\* check_and_tokenize_history up to its call of the summarizer: the
\* untokenized entries and the latest chunk as this session read them
ThreadReadUntokenized(t) ==
    /\ threads[t].pc = "inserted"
    /\ LET counted == EnsureHistoryTokenCounts(history)
       IN /\ Untokenized(counted) /= {}
          /\ TotalUntokenizedTokens(counted) >= TOKENIZE_THRESHOLD
          /\ history' = counted
          /\ \E latest \in LatestTokenized(chunks) :
              threads' = [threads EXCEPT
                             ![t].untokenized = Untokenized(counted),
                             ![t].latest = {latest},
                             ![t].pc = "summarize"]
    /\ UNCHANGED <<chunks, next_id, next_chunk_id, serial_vars, turn_vars, pure_vars>>

\* the summarizer raises: the request ends with the error
ThreadSummarizeRaises(t) ==
    /\ threads[t].pc = "summarize"
    /\ threads' = [threads EXCEPT ![t].pc = "done"]
    /\ UNCHANGED <<db_vars, serial_vars, turn_vars, pure_vars>>

\* the summary comes back: the chunk this session read is updated, or a new
\* chunk added, the entries it read are marked, one commit.  (Trigger B
\* finds at most MAX_TOKENIZED_HISTORY_BLOCK chunks here and returns.)
ThreadTokenizeCommit(t) ==
    /\ threads[t].pc = "summarize"
    /\ LET chunk_entries == OrderByEntryIndex(threads[t].untokenized)
       IN \E n \in SummaryTokens, seam \in SeamTokens :
            LET merge == \A latest \in threads[t].latest :
                            MergeKept(latest, n)
            IN /\ chunks' =
                    IF merge
                    THEN {c \in chunks :
                            \A latest \in threads[t].latest :
                                c.id /= latest.id}
                         \cup {MergedChunk(latest, chunk_entries, n, seam) :
                                 latest \in threads[t].latest}
                    ELSE chunks \cup
                         {NewTokenized(next_chunk_id, chunk_entries, n,
                                       CalculateTokenCount(n))}
               /\ next_chunk_id' =
                    IF merge THEN next_chunk_id ELSE next_chunk_id + 1
               /\ history' =
                    MarkTokenized(history, SeqToSet(Ids(chunk_entries)))
    /\ threads' = [threads EXCEPT ![t].pc = "done"]
    /\ UNCHANGED <<next_id, serial_vars, turn_vars, pure_vars>>

ConcNext ==
    \E t \in Threads :
        \/ ReadMaxEntryIndex(t)
        \/ InsertHistory(t)
        \/ ThreadTokenizeNotNeeded(t)
        \/ ThreadReadUntokenized(t)
        \/ ThreadSummarizeRaises(t)
        \/ ThreadTokenizeCommit(t)

ConcSpec == ConcInit /\ [][ConcNext]_vars

(***************************************************************************)
(* DeepConcSpec: one POST /deep_memory/ request and one run of Trigger B   *)
(* on the same game, each with its own database session and cut at its     *)
(* read of the deep memory and at its commit.  The game has four Active    *)
(* chunks, one more than the limit.                                        *)
(***************************************************************************)
DeepRequests == {"create", "compress"}

NewDeepRequest == [pc |-> "start", existing |-> {}, old_chunks |-> {}]

\* saved_game_id = Column(..., unique=True): the INSERT of a second row of
\* the game is refused (IntegrityError at the commit)
UniqueViolation_NoConstraint(dm) == FALSE

UniqueViolation(dm) == dm /= {}

\* a deep memory row as the two writers build it
NewDeepMemory(dm, summary, chunks_merged, last_merged_end_index) ==
    [id |-> Cardinality(dm) + 1,
     summary |-> summary,
     token_count |-> CalculateTokenCount(summary),
     chunks_merged |-> chunks_merged,
     last_merged_end_index |-> last_merged_end_index]

DeepConcInit ==
    /\ NoTier
    /\ NoQuery
    /\ InitGame
    /\ NoTurn
    /\ NoText
    /\ NoSettings
    /\ threads = [r \in DeepRequests |-> NewDeepRequest]

\* the game before the two requests: four Active chunks, and no deep
\* memory or one created through POST /deep_memory/
DeepConcGame ==
    /\ pc = "new"
    /\ \E n \in SummaryTokens :
        chunks' = {[id |-> i, start_index |-> 2 * i - 2,
                    end_index |-> 2 * i - 1,
                    summary |-> IF i = 1 THEN n ELSE 4,
                    token_count |-> IF i = 1 THEN n ELSE 4,
                    is_tokenized |-> 0,
                    history_references |-> <<2 * i - 1, 2 * i>>] :
                        i \in 1..4}
    /\ history' = {[id |-> i + 1, entry_index |-> i, text |-> 1,
                    token_count |-> 1, is_tokenized |-> 1] : i \in 0..7}
    /\ \E dm \in {{}} \cup {{NewDeepMemory({}, summary, 0, 0)} :
                                summary \in ClientSummaries} :
        deep_memory' = dm
    /\ next_id' = 9
    /\ next_chunk_id' = 5
    /\ pc' = "idle"
    /\ UNCHANGED <<new_history, response, summarize_calls,
                   lastA, lastB, last_deleted, manual,
                   turn_vars, conc_vars, pure_vars>>

\* perform_create_deep_memory line 27 / Trigger B lines 306-308 and
\* 286-292: existing = db.query(DeepMemory)...first()
ReadDeepMemory(r) ==
    /\ pc = "idle"
    /\ threads[r].pc = "start"
    /\ \E old_chunks \in OldChunks(chunks) :
        threads' = [threads EXCEPT
                       ![r].existing = deep_memory,
                       ![r].old_chunks =
                           IF r = "compress" THEN old_chunks ELSE {},
                       ![r].pc = "read"]
    /\ UNCHANGED <<db_vars, serial_vars, turn_vars, pure_vars>>

\* lines 28-29: HTTP 400 when the game has a deep memory
CreateRefused ==
    /\ threads["create"].pc = "read"
    /\ threads["create"].existing /= {}
    /\ threads' = [threads EXCEPT !["create"].pc = "refused"]
    /\ UNCHANGED <<db_vars, serial_vars, turn_vars, pure_vars>>

\* lines 31-41: db.add(new_deep_memory); db.commit()
CreateCommit ==
    /\ threads["create"].pc = "read"
    /\ threads["create"].existing = {}
    /\ \E summary \in ClientSummaries :
        IF UniqueViolation(deep_memory)
        THEN /\ threads' = [threads EXCEPT !["create"].pc = "failed"]
             /\ UNCHANGED deep_memory
        ELSE /\ threads' = [threads EXCEPT !["create"].pc = "done"]
             /\ deep_memory' = deep_memory \cup
                    {NewDeepMemory(deep_memory, summary, 0, 0)}
    /\ UNCHANGED <<db_vars, pc, new_history, response, summarize_calls,
                   lastA, lastB, last_deleted, manual,
                   turn_vars, pure_vars>>

\* ai_deep_summarize_chunk raises: nothing of Trigger B is committed
CompressThreadRaises ==
    /\ threads["compress"].pc = "read"
    /\ threads' = [threads EXCEPT !["compress"].pc = "raised"]
    /\ UNCHANGED <<db_vars, serial_vars, turn_vars, pure_vars>>

\* lines 325-350 with the row read at line 306: the row updated in place,
\* or a new row inserted; the marks of the chunks are in the same commit
CompressThreadCommit ==
    /\ threads["compress"].pc = "read"
    /\ \E deep_summary \in DeepTokens :
        LET mine == threads["compress"]
        IN IF mine.existing /= {}
           THEN /\ deep_memory' =
                      MergedDeepMemory(deep_memory, mine.old_chunks,
                                       deep_summary)
                /\ chunks' = MarkCompressed(chunks, mine.old_chunks)
                /\ threads' = [threads EXCEPT !["compress"].pc = "done"]
           ELSE IF UniqueViolation(deep_memory)
           THEN /\ threads' = [threads EXCEPT !["compress"].pc = "failed"]
                /\ UNCHANGED <<deep_memory, chunks>>
           ELSE /\ deep_memory' = deep_memory \cup
                      {NewDeepMemory(deep_memory, deep_summary,
                                     Cardinality(mine.old_chunks),
                                     LastEndIndex(mine.old_chunks))}
                /\ chunks' = MarkCompressed(chunks, mine.old_chunks)
                /\ threads' = [threads EXCEPT !["compress"].pc = "done"]
    /\ UNCHANGED <<history, next_id, next_chunk_id, pc, new_history,
                   response, summarize_calls, lastA, lastB, last_deleted,
                   manual, turn_vars, pure_vars>>

DeepConcNext ==
    \/ DeepConcGame
    \/ \E r \in DeepRequests : ReadDeepMemory(r)
    \/ CreateRefused
    \/ CreateCommit
    \/ CompressThreadRaises
    \/ CompressThreadCommit

DeepConcSpec == DeepConcInit /\ [][DeepConcNext]_vars

(***************************************************************************)
(* SummarySpec: one request to summarize_chunk on the AI server: the       *)
(* prompt built from the entries of the chunk, then the one generation.    *)
(***************************************************************************)
\* longest chunk of a request
MaxChunkEntries == 3
\* tokens of an entry's entry.strip() + "\n"
ChunkEntryTokens == {1, 2, 6}
\* max_tokens of the request (scaled: the block size of the settings)
SummaryMaxTokens == {3, 4, 7}
\* tokens of the header (the compression rules and "# Story Segment:") and
\* of the footer (the split marker)
summary_header_tokens == 2
summary_footer_tokens == 1
\* tokens the "...\n" after a truncated entry adds
EllipsisTokens == {1, 2}

\* line 189
SummaryAvailableTokens(max_tokens) ==
    SAFE_PROMPT_LIMIT - summary_header_tokens - summary_footer_tokens - max_tokens

\* variant: the entries walked from the newest one
RECURSIVE WholeEntries_NewestFirst(_, _)
WholeEntries_NewestFirst(entries, available_tokens) ==
    IF entries = <<>> \/ entries[Len(entries)].tokens > available_tokens
    THEN <<>>
    ELSE WholeEntries_NewestFirst(
             SubSeq(entries, 1, Len(entries) - 1),
             available_tokens - entries[Len(entries)].tokens)
         \o <<entries[Len(entries)]>>

\* lines 193-198 and the break of line 213: the entries appended whole, in
\* the order of the chunk, up to the first that does not fit
RECURSIVE WholeEntries(_, _)
WholeEntries(entries, available_tokens) ==
    IF entries = <<>> \/ Head(entries).tokens > available_tokens
    THEN <<>>
    ELSE <<Head(entries)>>
         \o WholeEntries(Tail(entries),
                         available_tokens - Head(entries).tokens)

\* lines 203-210: the tokens of the longest run of first words of the entry
\* that fits (0: not even the first word fits); where the words end is not
\* part of the model
TruncatedTokens(entry_tokens, available_tokens) ==
    {t \in 0..entry_tokens : t <= available_tokens /\ t < entry_tokens}

\* lines 191-213: chunk_text_parts
ChunkTextParts(chunk, available_tokens, truncated, ellipsis) ==
    LET whole == WholeEntries(Numbered(chunk), available_tokens)
    IN IF whole /= <<>> \/ chunk = <<>> THEN Sections("entry", whole)
       ELSE IF truncated > 0
       THEN <<[kind |-> "truncated", tokens |-> truncated + ellipsis,
               item |-> 1]>>
       ELSE <<>>

\* line 215: prompt = header + "".join(chunk_text_parts) + footer
SummaryPrompt(chunk, max_tokens, truncated, ellipsis) ==
    <<Section("header", summary_header_tokens)>>
    \o ChunkTextParts(chunk, SummaryAvailableTokens(max_tokens),
                      truncated, ellipsis)
    \o <<Section("footer", summary_footer_tokens)>>

SummaryInit ==
    /\ NoTier
    /\ NoQuery
    /\ InitGame
    /\ NoThreads
    /\ NoText
    /\ NoSettings
    /\ request \in [chunk : SeqsUpTo(ChunkEntryTokens, MaxChunkEntries),
                    max_tokens : SummaryMaxTokens]
    /\ prompt = <<>>
    /\ turn_pc = "summarize"
    /\ attempt = 0
    /\ story = <<>>

\* lines 151-215
AssembleSummaryPrompt ==
    /\ turn_pc = "summarize"
    /\ \E ellipsis \in EllipsisTokens,
          truncated \in
              IF request.chunk = <<>> THEN {0}
              ELSE TruncatedTokens(request.chunk[1],
                       SummaryAvailableTokens(request.max_tokens)) :
        prompt' = SummaryPrompt(request.chunk, request.max_tokens,
                                truncated, ellipsis)
    /\ turn_pc' = "generate"
    /\ UNCHANGED <<request, attempt, story, db_vars, serial_vars,
                   conc_vars, pure_vars>>

\* what is left after the split marker, stripped: nothing, or a summary
SummaryTexts == {<<>>, <<"prose">>}

\* lines 230-249: a single generation, the text after the split marker
GenerateSummary ==
    /\ turn_pc = "generate"
    /\ attempt' = attempt + 1
    /\ \E text \in SummaryTexts : story' = text
    /\ turn_pc' = "done"
    /\ UNCHANGED <<request, prompt, db_vars, serial_vars, conc_vars,
                   pure_vars>>

SummaryNext ==
    \/ AssembleSummaryPrompt
    \/ GenerateSummary

SummarySpec == SummaryInit /\ [][SummaryNext]_vars

(***************************************************************************)
(* LookupSpec: describe_entity_ai from the sources collected to the chunk  *)
(* handed to the summarizer.  A source is its weight and the tokens its    *)
(* text adds to the body.                                                  *)
(***************************************************************************)
\* most sources collected for a query
MaxSources == 3
\* weight 1, or the weight of a priority domain (PRIORITY_WEIGHTS)
SourceWeights == {1, 4}
SourceTokens == {1, 2, 4}
\* tokens of header_text
LookupHeaderTokens == {2, 4}
\* reserved_for_output + margin (MAX_SUMMARY_TOKENS + 50), scaled
lookup_reserved == 3
\* tokens "\n\n---\n\n" adds between two sources, tokens of "\n\nSOURCES:\n"
separator_tokens == 1
prefix_tokens == 1

\* line 157
LookupAvailableTokens(header) ==
    Max({0, SAFE_PROMPT_LIMIT - lookup_reserved - header})

\* the sources with their positions in the list collected
NumberedSources(sources) ==
    [i \in 1..Len(sources) |->
        [item |-> i, weight |-> sources[i].weight,
         tokens |-> sources[i].tokens]]

\* line 131: collected.sort(key=lambda x: -int(x[0])), a stable sort
SortByWeight(collected) ==
    LET n == Len(collected)
        Rank(i) ==
            1 + Cardinality({j \in 1..n :
                    \/ collected[j].weight > collected[i].weight
                    \/ collected[j].weight = collected[i].weight /\ j < i})
    IN [k \in 1..n |-> collected[CHOOSE i \in 1..n : Rank(i) = k]]

\* lines 166-174: the tokens the candidate adds to the body
Delta(source, included) ==
    source.tokens + (IF included /= <<>> THEN separator_tokens ELSE 0)

\* variant: the loop ends at the first source that does not fit
RECURSIVE IncludeSources_Stopping(_, _, _)
IncludeSources_Stopping(collected, included, available_tokens) ==
    IF collected = <<>> THEN included
    ELSE LET source == Head(collected)
             delta == Delta(source, included)
         IN IF delta <= available_tokens
            THEN IncludeSources_Stopping(Tail(collected),
                     Append(included, [kind |-> "source", tokens |-> delta,
                                       item |-> source.item]),
                     available_tokens - delta)
            ELSE included

\* lines 163-180: a source that fits is included, one that does not is
\* noted in removed_sources and the loop goes on
RECURSIVE IncludeSources(_, _, _)
IncludeSources(collected, included, available_tokens) ==
    IF collected = <<>> THEN included
    ELSE LET source == Head(collected)
             delta == Delta(source, included)
         IN IF delta <= available_tokens
            THEN IncludeSources(Tail(collected),
                     Append(included, [kind |-> "source", tokens |-> delta,
                                       item |-> source.item]),
                     available_tokens - delta)
            ELSE IncludeSources(Tail(collected), included, available_tokens)

\* lines 182-193: the chunk
LookupChunk(sources, header) ==
    LET included == IncludeSources(SortByWeight(NumberedSources(sources)),
                                   <<>>, LookupAvailableTokens(header))
    IN (IF included /= <<>>
        THEN <<Section("sources_prefix", prefix_tokens)>> \o included
        ELSE <<Section("no_sources", prefix_tokens)>>)
       \o <<Section("lookup_header", header)>>

LookupInit ==
    /\ NoTier
    /\ NoQuery
    /\ InitGame
    /\ NoThreads
    /\ NoText
    /\ NoSettings
    /\ request \in [sources : SeqsUpTo([weight : SourceWeights,
                                        tokens : SourceTokens], MaxSources),
                    header : LookupHeaderTokens]
    /\ prompt = <<>>
    /\ turn_pc = "lookup"
    /\ attempt = 0
    /\ story = <<>>

\* lines 130-193
AssembleLookupChunk ==
    /\ turn_pc = "lookup"
    /\ prompt' = LookupChunk(request.sources, request.header)
    /\ turn_pc' = "summarize"
    /\ UNCHANGED <<request, attempt, story, db_vars, serial_vars,
                   conc_vars, pure_vars>>

\* lines 196-203: perform_deep_summarize_chunk on the chunk
SummarizeLookup ==
    /\ turn_pc = "summarize"
    /\ attempt' = attempt + 1
    /\ \E text \in SummaryTexts : story' = text
    /\ turn_pc' = "done"
    /\ UNCHANGED <<request, prompt, db_vars, serial_vars, conc_vars,
                   pure_vars>>

LookupNext ==
    \/ AssembleLookupChunk
    \/ SummarizeLookup

LookupSpec == LookupInit /\ [][LookupNext]_vars

(***************************************************************************)
(* QuerySpec: extract_query_terms on a query text, then select_sections    *)
(* on the titles of the sections of a page.  A text is the sequence of     *)
(* its characters.                                                         *)
(***************************************************************************)
UpperCase == <<"A", "B", "C", "D", "E", "F", "G", "H", "I", "J", "K", "L",
               "M", "N", "O", "P", "Q", "R", "S", "T", "U", "V", "W", "X",
               "Y", "Z">>
LowerCase == <<"a", "b", "c", "d", "e", "f", "g", "h", "i", "j", "k", "l",
               "m", "n", "o", "p", "q", "r", "s", "t", "u", "v", "w", "x",
               "y", "z">>
Digits == {"0", "1", "2", "3", "4", "5", "6", "7", "8", "9"}
\* [0-9a-zA-Z]
AlphaNumeric ==
    Digits \union {UpperCase[i] : i \in 1..26}
           \union {LowerCase[i] : i \in 1..26}
Quotes == {"\"", "'"}

\* str.lower()
LowerChar(c) ==
    IF \E i \in 1..26 : UpperCase[i] = c
    THEN LowerCase[CHOOSE i \in 1..26 : UpperCase[i] = c]
    ELSE c
Lower(text) == [i \in 1..Len(text) |-> LowerChar(text[i])]

\* re.sub(r'[^0-9a-zA-Z]+', '', text)
AlphaNumericOnly(text) == SelectSeq(text, LAMBDA c : c \in AlphaNumeric)

\* the texts of the model
physical == <<"p", "h", "y", "s", "i", "c", "a", "l">>
appearance == <<"a", "p", "p", "e", "a", "r", "a", "n", "c", "e">>
Appearance == <<"A">> \o Tail(appearance)
Personality ==
    <<"P", "e", "r", "s", "o", "n", "a", "l", "i", "t", "y">>
Trivia == <<"T", "r", "i", "v", "i", "a">>
PhysicalAppearance == <<"P">> \o Tail(physical) \o <<" ">> \o appearance

\* pieces a query is written with, and the most pieces of a query
QueryPieces == {<<"\"">>, <<"'">>, <<" ">>, physical, appearance, Trivia}
MaxQueryPieces == 5
RECURSIVE Join(_)
Join(pieces) ==
    IF pieces = <<>> THEN <<>> ELSE Head(pieces) \o Join(Tail(pieces))
Queries == {Join(pieces) : pieces \in SeqsUpTo(QueryPieces, MaxQueryPieces)}
\* titles of the sections of a page, in the order of the page
SectionLists == {<<>>,
                 <<Appearance, Personality, Trivia>>,
                 <<Trivia, Personality, PhysicalAppearance, Appearance>>}
max_sections == 3

\* position of the next q after position i, 0 if there is none
NextQuote(text, i, q) ==
    IF \E j \in (i + 1)..Len(text) : text[j] = q
    THEN CHOOSE j \in (i + 1)..Len(text) :
            /\ text[j] = q
            /\ \A k \in (i + 1)..(j - 1) : text[k] /= q
    ELSE 0

\* the matches of r'"([^\"]+)"|\'([^\']+)\'' from position i on, left to
\* right, not overlapping: the positions of the two quotes of each
RECURSIVE QuotedPhrases(_, _)
QuotedPhrases(text, i) ==
    IF i > Len(text) THEN <<>>
    ELSE IF text[i] \in Quotes /\ NextQuote(text, i, text[i]) > i + 1
         THEN <<[first |-> i, last |-> NextQuote(text, i, text[i])]>>
              \o QuotedPhrases(text, NextQuote(text, i, text[i]) + 1)
         ELSE QuotedPhrases(text, i + 1)

\* variant: the quoted phrases are left in the text the words are taken from
WithoutQuoted_Kept(text, phrases, i) == text

\* line 36: each quoted phrase replaced by a blank
RECURSIVE WithoutQuoted(_, _, _)
WithoutQuoted(text, phrases, i) ==
    IF i > Len(text) THEN <<>>
    ELSE IF phrases /= <<>> /\ Head(phrases).first = i
         THEN <<" ">> \o WithoutQuoted(text, Tail(phrases),
                                       Head(phrases).last + 1)
         ELSE <<text[i]>> \o WithoutQuoted(text, phrases, i + 1)

\* re.findall(r"[0-9A-Za-z]+", text): the longest runs, left to right
RECURSIVE Words(_, _)
Words(text, word) ==
    IF text = <<>> THEN (IF word = <<>> THEN <<>> ELSE <<word>>)
    ELSE IF Head(text) \in AlphaNumeric
         THEN Words(Tail(text), Append(word, Head(text)))
         ELSE (IF word = <<>> THEN <<>> ELSE <<word>>)
              \o Words(Tail(text), <<>>)

\* lines 43-49
RECURSIVE Deduplicate(_, _)
Deduplicate(terms, seen) ==
    IF terms = <<>> THEN <<>>
    ELSE IF Head(terms) \in seen THEN Deduplicate(Tail(terms), seen)
         ELSE <<Head(terms)>>
              \o Deduplicate(Tail(terms), seen \union {Head(terms)})

\* query_terms.py lines 15-50
ExtractQueryTerms(query_text) ==
    IF query_text = <<>> THEN <<>>
    ELSE LET phrases == QuotedPhrases(query_text, 1)
             joined == [i \in 1..Len(phrases) |->
                           Lower(AlphaNumericOnly(
                               SubSeq(query_text, phrases[i].first + 1,
                                      phrases[i].last - 1)))]
             words == Words(WithoutQuoted(query_text, phrases, 1), <<>>)
         IN Deduplicate(
                SelectSeq(joined, LAMBDA term : term /= <<>>)
                \o [i \in 1..Len(words) |-> Lower(words[i])],
                {})

\* term in text
Contains(text, term) ==
    \E i \in 0..(Len(text) - Len(term)) :
        SubSeq(text, i + 1, i + Len(term)) = term

FirstN(seq, n) == SubSeq(seq, 1, Min({n, Len(seq)}))

\* section_selector.py lines 9-35, on the titles
SelectSections(sections, terms) ==
    IF sections = <<>> THEN <<>>
    ELSE IF terms = <<>> THEN FirstN(sections, max_sections)
    ELSE LET filtered ==
                 SelectSeq(sections, LAMBDA title :
                     \E i \in 1..Len(terms) :
                         \/ Contains(Lower(title), terms[i])
                         \/ Contains(AlphaNumericOnly(Lower(title)),
                                     terms[i]))
         IN IF filtered /= <<>> THEN FirstN(filtered, max_sections)
            ELSE FirstN(sections, max_sections)

QueryInit ==
    /\ NoTier
    /\ InitGame
    /\ request = NoRequest
    /\ prompt = <<>>
    /\ turn_pc = "query"
    /\ attempt = 0
    /\ story = <<>>
    /\ NoThreads
    /\ NoText
    /\ NoSettings
    /\ query \in [text : Queries, sections : SectionLists]
    /\ query_terms = <<>>
    /\ selected = <<>>

\* lookup_ai_service.py line 63
ExtractTerms ==
    /\ turn_pc = "query"
    /\ query_terms' = ExtractQueryTerms(query.text)
    /\ turn_pc' = "select"
    /\ UNCHANGED <<query, selected, request, prompt, attempt, story, db_vars,
                   serial_vars, conc_vars, san_vars, settings_vars, tier_vars>>

\* lookup_ai_service.py line 109
Select ==
    /\ turn_pc = "select"
    /\ selected' = SelectSections(query.sections, query_terms)
    /\ turn_pc' = "selected"
    /\ UNCHANGED <<query, query_terms, request, prompt, attempt, story,
                   db_vars, serial_vars, conc_vars, san_vars, settings_vars, tier_vars>>

QueryNext ==
    \/ ExtractTerms
    \/ Select

QuerySpec == QueryInit /\ [][QueryNext]_vars

(***************************************************************************)
(* TierSpec: the settings the triggers and the AI server read for a game   *)
(* whose owner has an account tier (ai/ai_settings.py).  The rows of       *)
(* ai_directive_settings are 1 (Basic) and 2 (Elite).                      *)
(***************************************************************************)
\* rows of the Elite tier (seed_data.py lines 144-163), scaled
EliteRows == [tokenize_threshold : {3, 4},
              tokenized_history_block_size : {15, 23},
              max_tokenized_history_block : {5, 6},
              deep_memory_max_tokens : {12, 20}]
\* user.account_level.game_settings_id of the owner (NULL: no tier)
AccountLevels == {NULL, 1, 2}

\* ai_settings.py lines 28-46: the id of the row to load
SettingsId(settings_id, user_id_level) ==
    IF settings_id /= NULL THEN settings_id
    ELSE IF user_id_level /= NULL THEN user_id_level
    ELSE 1

\* ai_settings.py lines 60-66: the row with that id, or any row
SettingsRowOf(rows, id) ==
    IF id \in DOMAIN rows THEN rows[id] ELSE rows[1]

\* ai_settings.py lines 72-90, the keys of the thresholds; there is no
\* DEEP_MEMORY_MAX_TOKENS key
SettingsDict(row) ==
    [TOKENIZE_THRESHOLD |-> row.tokenize_threshold,
     MAX_TOKENIZED_HISTORY_BLOCK |-> row.max_tokenized_history_block,
     TOKENIZED_HISTORY_BLOCK_SIZE |-> row.tokenized_history_block_size]

\* ai_settings.py lines 48-93: the dict of the cache, or the one built
CachedOrLoaded(cache, rows, id) ==
    IF id \in DOMAIN cache THEN cache[id]
    ELSE SettingsDict(SettingsRowOf(rows, id))

\* the cache after get_ai_settings
CacheWith(cache, rows, id) ==
    [k \in DOMAIN cache \union {id} |-> CachedOrLoaded(cache, rows, k)]

\* settings.get(key): None for a key the dict has not
GetSetting(dict, key) ==
    IF key \in DOMAIN dict THEN dict[key] ELSE NULL

TierInit ==
    /\ InitGame
    /\ NoTurn
    /\ NoThreads
    /\ NoText
    /\ NoSettings
    /\ NoQuery
    /\ account_level \in AccountLevels
    /\ \E elite \in EliteRows : directive_rows = <<BasicRow, elite>>
    /\ tier_cache = <<>>
    /\ limits = NoLimits

\* check_and_tokenize_history lines 139-141: get_setting(key, db), with
\* neither settings_id nor user_id
TokenizeLimits ==
    /\ LET id == SettingsId(NULL, NULL)
           settings == CachedOrLoaded(tier_cache, directive_rows, id)
       IN /\ tier_cache' = CacheWith(tier_cache, directive_rows, id)
          /\ limits' = [NoLimits EXCEPT
                !.for = "tokenize",
                !.TOKENIZE_THRESHOLD =
                    GetSetting(settings, "TOKENIZE_THRESHOLD"),
                !.TOKENIZED_HISTORY_BLOCK_SIZE =
                    GetSetting(settings, "TOKENIZED_HISTORY_BLOCK_SIZE")]
    /\ UNCHANGED <<account_level, directive_rows, san_vars, settings_vars,
                   query_vars, db_vars, serial_vars, turn_vars, conc_vars>>

\* compress_old_chunks_to_deep_memory lines 273-274
CompressLimits ==
    /\ LET id == SettingsId(NULL, NULL)
           settings == CachedOrLoaded(tier_cache, directive_rows, id)
       IN /\ tier_cache' = CacheWith(tier_cache, directive_rows, id)
          /\ limits' = [NoLimits EXCEPT
                !.for = "compress",
                !.MAX_TOKENIZED_HISTORY_BLOCK =
                    GetSetting(settings, "MAX_TOKENIZED_HISTORY_BLOCK"),
                !.DEEP_MEMORY_MAX_TOKENS =
                    GetSetting(settings, "DEEP_MEMORY_MAX_TOKENS")]
    /\ UNCHANGED <<account_level, directive_rows, san_vars, settings_vars,
                   query_vars, db_vars, serial_vars, turn_vars, conc_vars>>

\* get_user_ai_settings(user_id) of the AI server, for the owner of the
\* game: get_ai_settings(None, None, user_id)
UserSettings ==
    /\ LET id == SettingsId(NULL, account_level)
           settings == CachedOrLoaded(tier_cache, directive_rows, id)
       IN /\ tier_cache' = CacheWith(tier_cache, directive_rows, id)
          /\ limits' = [NoLimits EXCEPT
                !.for = "generate",
                !.MAX_TOKENIZED_HISTORY_BLOCK =
                    GetSetting(settings, "MAX_TOKENIZED_HISTORY_BLOCK")]
    /\ UNCHANGED <<account_level, directive_rows, san_vars, settings_vars,
                   query_vars, db_vars, serial_vars, turn_vars, conc_vars>>

TierNext ==
    \/ TokenizeLimits
    \/ CompressLimits
    \/ UserSettings

TierSpec == TierInit /\ [][TierNext]_vars

(***************************************************************************)
(* SanitizeSpec: the sanitizing steps of generate_from_game applied to a  *)
(* text, and applied again to what they returned.                          *)
(***************************************************************************)
MaxTextLen == 3
MaxPasses == 2
Texts == SeqsUpTo(Pieces, MaxTextLen)
\* no stop tokens, one stop token, the seeded list
StopTokenLists == {<<>>, <<"Narrator:">>, STOP_TOKENS}

SanitizeInit ==
    /\ NoTier
    /\ NoQuery
    /\ InitGame
    /\ NoTurn
    /\ NoThreads
    /\ NoSettings
    /\ stop_tokens \in StopTokenLists
    /\ generated \in Texts
    /\ passes = 0

\* lines 112-133 on the text
SanitizeText ==
    /\ passes < MaxPasses
    /\ generated' = Sanitize(generated, stop_tokens)
    /\ passes' = passes + 1
    /\ UNCHANGED <<stop_tokens, settings_vars, query_vars, tier_vars,
                   db_vars, serial_vars, turn_vars, conc_vars>>

SanitizeNext == SanitizeText

SanitizeSpec == SanitizeInit /\ [][SanitizeNext]_vars

(***************************************************************************)
(* SettingsSpec: get_ai_settings and the prompt budgets that read the      *)
(* limit from its dict.  The columns max_tokens, reserved_for_generation   *)
(* and safe_prompt_limit of ai_directive_settings are three integer        *)
(* columns of their own (models.py lines 130-132); the server reads the    *)
(* row, it never writes it after seeding.                                  *)
(***************************************************************************)
SettingsRows == [max_tokens : {12, 14},
                 reserved_for_generation : {2, 4},
                 safe_prompt_limit : {8, 10, 12}]
\* the default of settings.get("SAFE_PROMPT_LIMIT", 3900), scaled: a little
\* under the seeded limit, as 3900 is under 4096 - 180
DEFAULT_SAFE_PROMPT_LIMIT == 9
\* the dict of a request whose settings could not be loaded: {}
EmptySettings == [key \in {} |-> 0]
\* tokens of the base prompt and action, of the summary header and footer,
\* of the lookup header
UsedTokens == {2, 4, 6}
\* tokens reserved for a summary (max_tokens of summarize_chunk) and for
\* the output of a lookup with its margin
ReservedTokens == {1, 3}

\* ai_settings.py lines 72-90, the keys of the limit
GetAISettings(row) ==
    [MAX_TOKENS |-> row.max_tokens,
     RESERVED_FOR_GENERATION |-> row.reserved_for_generation,
     SAFE_PROMPT_LIMIT |-> row.safe_prompt_limit,
     SAFE_PROMPT_LIMIT_COMPUTED |->
         row.max_tokens - row.reserved_for_generation]

\* settings.get("SAFE_PROMPT_LIMIT", 3900)
SafePromptLimitOf(dict) ==
    IF "SAFE_PROMPT_LIMIT" \in DOMAIN dict
    THEN dict["SAFE_PROMPT_LIMIT"]
    ELSE DEFAULT_SAFE_PROMPT_LIMIT

SettingsInit ==
    /\ NoTier
    /\ NoQuery
    /\ InitGame
    /\ NoTurn
    /\ NoThreads
    /\ NoText
    /\ settings_row \in SettingsRows
    /\ settings_cache = {}
    /\ budget = NoBudget

\* get_ai_settings on an empty cache: the dict is built from the row and
\* cached
LoadSettings ==
    /\ settings_cache = {}
    /\ settings_cache' = {GetAISettings(settings_row)}
    /\ UNCHANGED <<settings_row, budget, san_vars, query_vars, tier_vars,
                   db_vars, serial_vars, turn_vars, conc_vars>>

\* flatten_json_prompt lines 54-55
StoryBudget ==
    /\ \E settings \in settings_cache, tokens_used \in UsedTokens :
        budget' = [for |-> "story",
                   limit |-> SafePromptLimitOf(settings),
                   available |-> SafePromptLimitOf(settings) - tokens_used]
    /\ UNCHANGED <<settings_row, settings_cache, san_vars, query_vars,
                   tier_vars, db_vars, serial_vars, turn_vars, conc_vars>>

\* summarize_chunk, root_router.py line 189
SummaryBudget ==
    /\ \E settings \in settings_cache, header_footer \in UsedTokens,
          reserved_tokens \in ReservedTokens :
        budget' = [for |-> "summary",
                   limit |-> SafePromptLimitOf(settings),
                   available |-> SafePromptLimitOf(settings)
                                 - header_footer - reserved_tokens]
    /\ UNCHANGED <<settings_row, settings_cache, san_vars, query_vars,
                   tier_vars, db_vars, serial_vars, turn_vars, conc_vars>>

\* describe_entity_ai, lookup_ai_service.py lines 135-157: the dict is the
\* one of get_user_ai_settings, or {} when there is no user or the call
\* raised
LookupBudget ==
    /\ \E settings \in settings_cache \union {EmptySettings},
          header_tokens \in UsedTokens, reserved \in ReservedTokens :
        budget' = [for |-> "lookup",
                   limit |-> SafePromptLimitOf(settings),
                   available |-> Max({0, SafePromptLimitOf(settings)
                                         - reserved - header_tokens})]
    /\ UNCHANGED <<settings_row, settings_cache, san_vars, query_vars,
                   tier_vars, db_vars, serial_vars, turn_vars, conc_vars>>

SettingsNext ==
    \/ LoadSettings
    \/ StoryBudget
    \/ SummaryBudget
    \/ LookupBudget

SettingsSpec == SettingsInit /\ [][SettingsNext]_vars

(***************************************************************************)
(* Properties of one turn (under TurnSpec).                                *)
(***************************************************************************)
Assembled == turn_pc \in {"generate", "done"}

\* C1: the prompt the assembler returns counts at most SafePromptLimit -
\* margin tokens, whatever deep memory, chunks and raw turns are supplied.
\* Stated for the smallest margin, 0: a larger margin demands more.
C1_BudgetSafety ==
    Assembled => Count(prompt) <= SAFE_PROMPT_LIMIT

\* C2: when the base prompt and the action text alone exceed the budget
\* (available < 0), the model's generate is never called for the turn.
C2_TooLargeNeverGenerates ==
    AvailableTokens(request) < 0 => attempt = 0

(***************************************************************************)
(* Properties of concurrent appends (under ConcSpec).                      *)
(***************************************************************************)
Appended(t) == {r \in history : r.id = threads[t].new_history}

\* C3: two concurrent append requests on one game are serialized: the
\* turns they append get different entry_index values, and no raw turn is
\* folded into two chunks.
C3_AppendsSerialized ==
    /\ \A t \in Threads, u \in Threads :
          t /= u =>
            \A r \in Appended(t), q \in Appended(u) :
                r.entry_index /= q.entry_index
    /\ \A c \in chunks, d \in chunks :
          c.id /= d.id =>
            SeqToSet(c.history_references)
                \cap SeqToSet(d.history_references) = {}

(***************************************************************************)
(* Properties of the history of one game (under Spec).                     *)
(***************************************************************************)
AllReferences(cs) == UNION {SeqToSet(c.history_references) : c \in cs}
Ranges(c) == c.start_index..c.end_index

\* C4: a raw turn just appended has an entry_index strictly greater than
\* the entry_index of every raw turn already in the game.
C4_AppendedIndexIsGreatest ==
    (pc = "tokenize" /\ new_history /= NULL) =>
        \A n \in history, r \in history :
            (n.id = new_history /\ r.id /= new_history) =>
                r.entry_index < n.entry_index

\* C5: any two Active chunks of the game have ranges that do not overlap;
\* stated for the chunks the compactor wrote itself (those with refs).
C5_ActiveRangesDisjoint ==
    \A c \in ActiveChunks(chunks), d \in ActiveChunks(chunks) :
        (c.id /= d.id /\ c.history_references /= <<>>
                      /\ d.history_references /= <<>>) =>
            Ranges(c) \cap Ranges(d) = {}

\* C6: after deleting a raw turn R no Active chunk has R's id in its refs
\* and no Active chunk has an empty refs.
C6_DeleteConsistency ==
    last_deleted /= NULL =>
        \A c \in ActiveChunks(chunks) :
            /\ last_deleted \notin SeqToSet(c.history_references)
            /\ c.history_references /= <<>>

\* What a completed Trigger A run (the state right after its commit) saw.
TriggerADone == pc = "compress" /\ lastA.kind \in {"merge", "new"}
FirstNewIndex == Min({r.entry_index : r \in lastA.untokenized})
LastNewIndex == Max({r.entry_index : r \in lastA.untokenized})

\* the chunk of lastA.before replaced by the merged one: summary appended,
\* end_index moved to the last new raw turn, refs extended by the new ids
MergedInPlace(latest) ==
    /\ Cardinality(chunks) = Cardinality(lastA.before)
    /\ \E m \in chunks :
        /\ chunks = (lastA.before \ {latest}) \cup {m}
        /\ m.id = latest.id
        /\ m.start_index = latest.start_index
        /\ m.end_index = LastNewIndex
        /\ m.token_count = latest.token_count + lastA.new_tokens
        /\ m.summary >= latest.summary + lastA.new_tokens
        /\ m.history_references = latest.history_references \o lastA.new_ids
        /\ m.is_tokenized = latest.is_tokenized

\* one more chunk, Active, over the new raw turns only
CreatedNewChunk ==
    \E c \in chunks \ lastA.before :
        /\ chunks = lastA.before \cup {c}
        /\ \A b \in lastA.before : b.id /= c.id
        /\ c.is_tokenized = 0
        /\ c.start_index = FirstNewIndex
        /\ c.end_index = LastNewIndex
        /\ c.summary = lastA.new_tokens
        /\ c.token_count = lastA.new_tokens
        /\ c.history_references = lastA.new_ids

Archived(h) == {r.id : r \in {x \in h : x.is_tokenized = 1}}
C8_ChunkAndArchivalTogether ==
    [][Archived(history') \ Archived(history)
          = AllReferences(chunks') \ AllReferences(chunks)]_vars

C8_Witness ==
    /\ TriggerADone
    /\ lastA.kind = "new"
    /\ Archived(history) = SeqToSet(lastA.new_ids)
    /\ Cardinality(Archived(history)) >= 2

Compacted(cs) == {c.id : c \in {x \in cs : x.is_tokenized = 1}}
C10_ExcessOldestCompacted ==
    lastB.kind = "compressed" =>
        LET active == ActiveChunks(lastB.before)
            marked == {c \in active : c.id \in Compacted(chunks)}
        IN /\ Cardinality(marked) =
                 Cardinality(active) - MAX_TOKENIZED_HISTORY_BLOCK + 2
           /\ \A o \in marked, c \in active \ marked :
                 o.end_index <= c.end_index
           /\ chunks = (lastB.before \ marked) \cup
                       {[c EXCEPT !.is_tokenized = 1] : c \in marked}

C10_Witness ==
    /\ lastB.kind = "compressed"
    /\ Cardinality(ActiveChunks(lastB.before)) = 4
    /\ Cardinality(ActiveChunks(chunks)) = 1
    /\ Cardinality(Compacted(chunks)) = 3

(***************************************************************************)
(* The deep memory (DeepSpec).                                             *)
(***************************************************************************)
\* the chunks the last run of Trigger B marked Compacted
Selected == {c \in ActiveChunks(lastB.before) : c.id \in Compacted(chunks)}

\* excess = active_count - MaxActiveChunks + 2, before the run
Excess ==
    Cardinality(ActiveChunks(lastB.before)) - MAX_TOKENIZED_HISTORY_BLOCK + 2

\* C11: a run of Trigger B that compacts chunks leaves one deep memory whose
\* chunks_merged grew by exactly excess (from 0 when it is created by the
\* run) and whose last_merged_end_index is the greatest end_index of the
\* selected chunks.
C11_DeepMemoryCounters ==
    lastB.kind = "compressed" =>
        /\ Cardinality(deep_memory) = 1
        /\ \A d \in deep_memory :
            /\ d.last_merged_end_index =
                  Max({c.end_index : c \in Selected})
            /\ IF lastB.deep_before = {}
                  THEN d.chunks_merged = Excess
                  ELSE \E b \in lastB.deep_before :
                          /\ b.id = d.id
                          /\ d.chunks_merged = b.chunks_merged + Excess

\* a second run of Trigger B adds its three chunks to the four of the first
C11_Witness ==
    /\ lastB.kind = "compressed"
    /\ lastB.deep_before /= {}
    /\ Excess = 3
    /\ \E b \in lastB.deep_before : b.chunks_merged = 4
    /\ \E d \in deep_memory : d.chunks_merged = 7

\* C12: no step of the game lowers last_merged_end_index of its deep memory.
C12_LastMergedEndIndexNeverDecreases ==
    [][\A d \in deep_memory : \A e \in deep_memory' :
          e.id = d.id =>
              e.last_merged_end_index >= d.last_merged_end_index]_vars

(***************************************************************************)
(* What the assembled prompt holds of the supplied history (TurnSpec).     *)
(***************************************************************************)
\* the lists flatten_json_prompt is given
Supplied == StructuredJson(request)
\* the positions of the sections of one kind, in the order of the prompt
ItemsOf(kind) ==
    LET of_kind == SelectSeq(prompt, LAMBDA sec : sec.kind = kind)
    IN [i \in 1..Len(of_kind) |-> of_kind[i].item]

\* C13: the raw turns of the prompt are the newest of the supplied ones,
\* without a gap, and stand in the order they were supplied in (oldest
\* first): with k included of n supplied they are the entries n-k+1 .. n.
C13_TailPreservation ==
    Assembled =>
        LET k == Len(ItemsOf("entry"))
            n == Len(Supplied.history)
        IN /\ k <= n
           /\ ItemsOf("entry") = [i \in 1..k |-> n - k + i]

\* two turns supplied, the older one left out, the newest one included
C13_Witness ==
    /\ Assembled
    /\ Len(Supplied.history) = 2
    /\ ItemsOf("entry") = <<2>>

\* C14: every block and every turn of the prompt is there once and with all
\* the tokens of its supplied text; whatever does not fit is absent.
C14_WholeSegments ==
    Assembled =>
        /\ \A i \in 1..Len(prompt) :
              /\ prompt[i].kind = "entry" =>
                    /\ prompt[i].item \in 1..Len(Supplied.history)
                    /\ prompt[i].tokens = Supplied.history[prompt[i].item]
              /\ prompt[i].kind = "block" =>
                    /\ prompt[i].item \in 1..Len(Supplied.tokenized_history)
                    /\ prompt[i].tokens =
                          Supplied.tokenized_history[prompt[i].item]
        /\ \A i, j \in 1..Len(prompt) :
              (prompt[i].kind = prompt[j].kind /\ prompt[i].item /= 0
               /\ prompt[i].item = prompt[j].item) => i = j

\* room is left in the prompt, and the block that does not fit in it is
\* left out whole while a newer one is included
C14_Witness ==
    /\ Assembled
    /\ Count(prompt) < SAFE_PROMPT_LIMIT
    /\ Len(ItemsOf("block")) >= 1
    /\ \E i \in 1..Len(Supplied.tokenized_history) :
          /\ Supplied.tokenized_history[i] >
                SAFE_PROMPT_LIMIT - Count(prompt)
          /\ \A j \in 1..Len(ItemsOf("block")) : ItemsOf("block")[j] > i

(***************************************************************************)
(* Chunk boundaries and cached token counts.                               *)
(***************************************************************************)
\* C15: for Active chunks A, B with A.end_index < B.start_index, every
\* Active raw turn with A.end_index < entry_index <= B.end_index is
\* referenced by B.
C15_MonotonicChunkBoundaries ==
    \A A \in ActiveChunks(chunks), B \in ActiveChunks(chunks) :
        A.end_index < B.start_index =>
            \A r \in Untokenized(history) :
                (A.end_index < r.entry_index /\ r.entry_index <= B.end_index)
                    => r.id \in SeqToSet(B.history_references)

\* C16: every raw turn, chunk and deep memory has a token_count that is NULL
\* or what the tokenizer counts for its current text.
C16_TokenCountMatchesText ==
    /\ \A r \in history :
          r.token_count = NULL \/ r.token_count = CalculateTokenCount(r.text)
    /\ \A c \in chunks :
          c.token_count = NULL \/
          c.token_count = CalculateTokenCount(c.summary)
    /\ \A d \in deep_memory :
          d.token_count = NULL \/
          d.token_count = CalculateTokenCount(d.summary)

\* C17: every Active chunk has token_count <= ChunkMaxTokens.
C17_ActiveChunksWithinBlockSize ==
    \A c \in ActiveChunks(chunks) :
        c.token_count = NULL \/
        c.token_count <= TOKENIZED_HISTORY_BLOCK_SIZE

(***************************************************************************)
(* The retry loop and the sanitizer (TurnSpec).                            *)
(***************************************************************************)
\* C18: a step that calls generate is the next of at most 15 calls of the
\* turn, and unless it is the first it follows a call that returned and
\* whose sanitized text was empty: never a call after a text that is not
\* empty, never a call after a call that raised.
C18_RetryOnlyOnEmptyOutput ==
    [][attempt' /= attempt =>
          /\ attempt' = attempt + 1
          /\ attempt' <= 15
          /\ attempt > 0 => (story = <<>> /\ turn_pc /= "failed")]_vars

\* fourteen empty texts, and the fifteenth call returns the story
C18_Witness ==
    /\ turn_pc = "done"
    /\ attempt = 15
    /\ story /= <<>>

\* C19: sanitizing a text that went through the sanitizing steps returns
\* it unchanged, whatever the stop tokens are
C19_SanitizerIdempotent ==
    [][passes >= 1 => generated' = generated]_vars

\* C20: the limit every prompt budget starts from is max_tokens minus
\* reserved_for_generation of the settings row
C20_LimitIsComputed ==
    budget.for /= "none" =>
        budget.limit = settings_row.max_tokens
                       - settings_row.reserved_for_generation

\* C21: a game never has more than one deep memory row, also when a manual
\* creation and a run of Trigger B both found none
C21_AtMostOneDeepMemory == Cardinality(deep_memory) <= 1

\* both requests read "no deep memory" and both reached their commit
C21_Witness ==
    /\ \A r \in DeepRequests :
        threads[r].pc \in {"done", "failed"} /\ threads[r].existing = {}
    /\ \E r \in DeepRequests : threads[r].pc = "failed"
    /\ Cardinality(deep_memory) = 1

(***************************************************************************)
(* The summarization prompt.                                               *)
(***************************************************************************)
SummaryAssembled == turn_pc \in {"generate", "done"}
\* the sections between the header and the footer
ChunkParts == SubSeq(prompt, 2, Len(prompt) - 1)
PartsTokens == SumSeq([i \in 1..Len(ChunkParts) |-> ChunkParts[i].tokens])
HeaderAndFooter ==
    /\ Len(prompt) >= 2
    /\ prompt[1] = Section("header", summary_header_tokens)
    /\ prompt[Len(prompt)] = Section("footer", summary_footer_tokens)

LookupAssembled == turn_pc \in {"summarize", "done"}
IncludedSources == SelectSeq(prompt, LAMBDA sec : sec.kind = "source")
IncludedItems == {IncludedSources[i].item : i \in 1..Len(IncludedSources)}
LookupBudgetLeft ==
    Max({0, SAFE_PROMPT_LIMIT - lookup_reserved - request.header})
\* source i is taken before source j
TakenBefore(i, j) ==
    \/ request.sources[i].weight > request.sources[j].weight
    \/ request.sources[i].weight = request.sources[j].weight /\ i < j
\* the tokens the included sources taken before source j added
AddedBefore(j) ==
    SumSeq([i \in 1..Len(IncludedSources) |->
               IF TakenBefore(IncludedSources[i].item, j)
               THEN IncludedSources[i].tokens ELSE 0])
\* the sources stand in the chunk in the order they are taken in
InWeightOrder ==
    \A i, j \in 1..Len(IncludedSources) :
        i < j => TakenBefore(IncludedSources[i].item, IncludedSources[j].item)
AddedWithinBudget ==
    SumSeq([i \in 1..Len(IncludedSources) |-> IncludedSources[i].tokens])
        <= LookupBudgetLeft

\* C23 as stated: weight order, within the budget, and no source included
\* after a source taken before it was rejected
C23_NoneAfterRejected_AsStated ==
    LookupAssembled =>
        /\ InWeightOrder
        /\ AddedWithinBudget
        /\ \A j \in IncludedItems, i \in 1..Len(request.sources) :
              TakenBefore(i, j) => i \in IncludedItems

\* C23: the sources are taken in descending weight order; a source is
\* included exactly when the tokens it adds fit in what the sources
\* included before it left of the budget, so the tokens added never exceed
\* the budget; a source that does not fit is passed over and the sources
\* after it are still tried.
C23_LookupSources ==
    LookupAssembled =>
        /\ InWeightOrder
        /\ AddedWithinBudget
        /\ \A j \in 1..Len(request.sources) :
              LET delta == request.sources[j].tokens
                           + (IF AddedBefore(j) > 0 THEN separator_tokens
                              ELSE 0)
              IN (j \in IncludedItems)
                    <=> (delta <= LookupBudgetLeft - AddedBefore(j))

\* a source of weight 4 did not fit and a source of weight 1 is included
C23_Witness ==
    /\ LookupAssembled
    /\ \E i \in 1..Len(request.sources), j \in IncludedItems :
          /\ i \notin IncludedItems
          /\ request.sources[i].weight = 4
          /\ request.sources[j].weight = 1

(***************************************************************************)
(* The terms of a query and the sections they select.                      *)
(***************************************************************************)
QuotedQuery == <<"\"">> \o physical \o <<" ">> \o appearance \o <<"\"">>
UnquotedQuery == physical \o <<" ">> \o appearance
ThreeSections == <<Appearance, Personality, Trivia>>
TermsExtracted == turn_pc \in {"select", "selected"}
NoDuplicates(terms) ==
    \A i, j \in 1..Len(terms) : terms[i] = terms[j] => i = j

\* C24 as stated: the quoted query "physical appearance" gives the terms
\* physicalappearance, physical, appearance, and they select exactly
\* Appearance of Appearance, Personality, Trivia
C24_QuotedExample_AsStated ==
    /\ TermsExtracted /\ query.text = QuotedQuery
          => query_terms = <<physical \o appearance, physical, appearance>>
    /\ turn_pc = "selected" /\ query.text = QuotedQuery
          /\ query.sections = ThreeSections
          => selected = <<Appearance>>

\* C24: the terms are the joined lowercase alphanumeric forms of the quoted
\* phrases, then the lowercase words of the text outside the quoted
\* phrases, without duplicates.  The quoted query "physical appearance"
\* gives the one term physicalappearance, which no title of Appearance,
\* Personality, Trivia contains, so all three are returned; the unquoted
\* query gives physical, appearance and selects exactly Appearance.
C24_QueryTerms ==
    /\ TermsExtracted =>
          /\ NoDuplicates(query_terms)
          /\ \A i \in 1..Len(query_terms) :
                /\ query_terms[i] /= <<>>
                /\ \A k \in 1..Len(query_terms[i]) :
                      query_terms[i][k] \in
                          Digits \union {LowerCase[n] : n \in 1..26}
          /\ query.text = QuotedQuery
                => query_terms = <<physical \o appearance>>
          /\ query.text = UnquotedQuery
                => query_terms = <<physical, appearance>>
    /\ turn_pc = "selected" /\ query.sections = ThreeSections =>
          /\ query.text = QuotedQuery => selected = ThreeSections
          /\ query.text = UnquotedQuery => selected = <<Appearance>>

C24_Witness ==
    /\ turn_pc = "selected"
    /\ query.text = QuotedQuery
    /\ query.sections = ThreeSections
    /\ query_terms = <<physical \o appearance>>

(***************************************************************************)
(* The summary chunks of the prompt.                                       *)
(***************************************************************************)
BlockItems == ItemsOf("block")
IncludedBlocks == {BlockItems[i] : i \in 1..Len(BlockItems)}
\* the newest MAX_TOKENIZED_HISTORY_BLOCK of the supplied chunks
ConsideredBlocks ==
    {i \in 1..Len(Supplied.tokenized_history) :
        i > Len(Supplied.tokenized_history) - MAX_TOKENIZED_HISTORY_BLOCK}
\* what is left for chunk i when the walk reaches it
BlockBudget(i) ==
    SAFE_PROMPT_LIMIT
    - SumSeq([k \in 1..Len(prompt) |->
                 IF \/ prompt[k].kind \in {"base", "action", "deep"}
                    \/ prompt[k].kind = "block" /\ prompt[k].item > i
                 THEN prompt[k].tokens ELSE 0])

\* C25 as stated: the chunks of the prompt are the k newest supplied chunks
\* for some k <= MaxActiveChunks, in ascending order
C25_ContiguousSuffix_AsStated ==
    Assembled =>
        \E k \in 0..MAX_TOKENIZED_HISTORY_BLOCK :
            /\ k <= Len(Supplied.tokenized_history)
            /\ BlockItems =
                  [j \in 1..k |-> Len(Supplied.tokenized_history) - k + j]

\* C25: the chunks of the prompt are among the MaxActiveChunks newest
\* supplied chunks and stand in ascending order; walking newest first, a
\* chunk with an empty summary is passed over, a chunk that fits what is
\* left is included whole, and the walk ends at the first non-empty chunk
\* that does not fit: a chunk left out between or after included ones has
\* an empty summary.
C25_BlockSelection ==
    Assembled =>
        /\ IncludedBlocks \subseteq ConsideredBlocks
        /\ \A a, b \in 1..Len(BlockItems) :
              a < b => BlockItems[a] < BlockItems[b]
        /\ \A i \in ConsideredBlocks \ IncludedBlocks :
              /\ (\E j \in IncludedBlocks : j < i)
                    => Supplied.tokenized_history[i] = 0
              /\ (/\ Supplied.tokenized_history[i] /= 0
                  /\ \A j \in ConsideredBlocks \ IncludedBlocks :
                        j > i => Supplied.tokenized_history[j] = 0)
                    => Supplied.tokenized_history[i] > BlockBudget(i)
        /\ \A i \in IncludedBlocks :
              /\ Supplied.tokenized_history[i] /= 0
              /\ Supplied.tokenized_history[i] <= BlockBudget(i)

\* a chunk with an empty summary is left out between two included chunks
C25_Witness ==
    /\ Assembled
    /\ \E i \in ConsideredBlocks \ IncludedBlocks :
          /\ Supplied.tokenized_history[i] = 0
          /\ \E j \in IncludedBlocks : j < i
          /\ \E j \in IncludedBlocks : j > i

(***************************************************************************)
(* The merge target of Trigger A.                                          *)
(***************************************************************************)
\* C26: Trigger A merges into an Active chunk only, and leaves every
\* Compacted chunk (summary, end_index, refs) as it was.
C26_MergeTargetActive ==
    [][pc = "tokenize" =>
          \A c \in chunks : c.is_tokenized = 1 => c \in chunks']_vars

(***************************************************************************)
(* The triggers of an append.                                              *)
(***************************************************************************)
\* C27: when an append returns (201), the game has at most
\* MAX_TOKENIZED_HISTORY_BLOCK Active chunks, also when Trigger A did not
\* fire on that append.
C27_ActiveChunksBounded ==
    [][(new_history /= NULL /\ pc' = "idle" /\ response' = "201") =>
          Cardinality(ActiveChunks(chunks')) <= MAX_TOKENIZED_HISTORY_BLOCK]_vars

(***************************************************************************)
(* The thresholds of a game.                                               *)
(***************************************************************************)
\* the row of the owner's tier, the Basic row when the owner has none
OwnerRow ==
    directive_rows[IF account_level = NULL THEN 1 ELSE account_level]

\* C28: the thresholds Trigger A and Trigger B apply are those of the row
\* of the tier of the owner of the game, the Basic row only when the owner
\* has no tier.
C28_OwnerTierThresholds ==
    /\ limits.for = "tokenize" =>
          /\ limits.TOKENIZE_THRESHOLD = OwnerRow.tokenize_threshold
          /\ limits.TOKENIZED_HISTORY_BLOCK_SIZE =
                OwnerRow.tokenized_history_block_size
    /\ limits.for = "compress" =>
          /\ limits.MAX_TOKENIZED_HISTORY_BLOCK =
                OwnerRow.max_tokenized_history_block
          /\ limits.DEEP_MEMORY_MAX_TOKENS = OwnerRow.deep_memory_max_tokens

(***************************************************************************)
(* The raw turns Trigger A folds.                                          *)
(***************************************************************************)
\* Trigger A has just committed a chunk
TriggerAFired == pc = "compress" /\ lastA.kind \in {"merge", "new"}

\* C29: when Trigger A fires, every raw turn that was Active is folded into
\* the chunk, the appended turn included, and no Active raw turn is left.
C29_AllActiveFolded ==
    TriggerAFired =>
        /\ Untokenized(history) = {}
        /\ \A r \in lastA.untokenized : r.id \in SeqToSet(lastA.new_ids)
        /\ lastA.appended /= NULL
              => lastA.appended \in SeqToSet(lastA.new_ids)
        /\ \E c \in chunks :
              SeqToSet(lastA.new_ids) \subseteq SeqToSet(c.history_references)

\* an append on which Trigger A folded an older Active turn and the turn
\* just appended
C29_Witness ==
    /\ TriggerAFired
    /\ lastA.appended /= NULL
    /\ Cardinality(lastA.untokenized) >= 2
    /\ Untokenized(history) = {}

(***************************************************************************)
(* Archived raw turns and the chunks that stand for them.                  *)
(***************************************************************************)
\* C30: every Archived raw turn is referenced by some chunk of the game,
\* Active or Compacted.
C30_ArchivedTurnsReferenced ==
    \A r \in history :
        r.is_tokenized = 1 =>
            \E c \in chunks : r.id \in SeqToSet(c.history_references)

====
